---------------------------- MODULE Spec2Model ----------------------------
(***************************************************************************)
(* Document segmentation and cross-document identity consolidation of the  *)
(* immigration audit application (src/models/document_processor.py and     *)
(* src/models/validators.py).                                              *)
(*                                                                         *)
(* Python values are represented as follows.                               *)
(*   - a str is a sequence of one-character strings, "" is << >>;          *)
(*   - None as a dictionary value is Null (a sequence no str equals);      *)
(*   - a dict is a function whose DOMAIN is the set of keys present;       *)
(*   - a document type is a TLA+ string, None as a type is NoType;         *)
(*   - a confidence is an integer number of hundredths (0.95 is 95);       *)
(*   - a date is the integer yyyymmdd, ordered as dates are;               *)
(*   - a message the code builds from a fixed text is a TLA+ string or a   *)
(*     record of its variable parts.                                       *)
(***************************************************************************)
EXTENDS Integers, Sequences, FiniteSets, TLC

VARIABLES
    page_analyses,          \* group_pages_into_documents: its argument
    page_idx,               \* number of pages the for loop has consumed
    segments,               \* list of DocumentSegment built so far
    current_segment_pages,
    current_doc_type,
    current_confidence,
    grouped,                \* TRUE once group_pages_into_documents returned
    person_records,         \* results['person_records']
    history,                \* the segment results handed to consolidate_person_data
    raised,                 \* an exception was raised
    options,                \* process_multi_document_file: its options
    pc,                     \* position in process_multi_document_file
    segments_found,         \* results['segments_found']
    documents_processed,    \* results['documents_processed']
    validation_errors,      \* results['validation_errors']
    processing_summary,     \* results['processing_summary']
    llm_failures,           \* indices of the segments whose LLM call raised
    page_text,              \* detect_document_types_on_page: its page_text
    ocr_used,               \* detect_document_types_on_page: its ocr_used
    detected,               \* what detect_document_types_on_page returned, if it has
    is_continuation,        \* what is_continuation_page returned, if it has
    person_data,            \* check_case_completeness: its person_data
    completeness,           \* what check_case_completeness returned, if it has
    date_input,             \* parse_date_flexible: its date_str
    date_parsed,            \* what parse_date_flexible returned, if it has
    date_range              \* what get_document_date_range returned, if it has

grouper_vars == <<page_analyses, page_idx, segments, current_segment_pages,
                  current_doc_type, current_confidence, grouped>>

consolidator_vars == <<person_records, history, raised>>

pipeline_vars == <<options, pc, segments_found, documents_processed, validation_errors,
                   processing_summary, llm_failures>>

classifier_vars == <<page_text, ocr_used, detected, is_continuation>>

validator_vars == <<person_data, completeness, date_input, date_parsed, date_range>>

vars == <<grouper_vars, consolidator_vars, pipeline_vars, classifier_vars,
          validator_vars>>

-----------------------------------------------------------------------------
(* Bounds of the model *)

MaxPages == 3

-----------------------------------------------------------------------------
(* Python values *)

Null == <<"None">>

NoType == "None"

Truthy(v) == v # Null /\ v # << >>

\* str(None) as an f-string renders it
NoneText == <<"N", "o", "n", "e">>

WhiteSpace == {" ", "\n", "\t", "\r"}

RECURSIVE lstrip(_)
lstrip(s) ==
    IF s = << >> THEN << >>
    ELSE IF Head(s) \in WhiteSpace THEN lstrip(Tail(s)) ELSE s

RECURSIVE rstrip(_)
rstrip(s) ==
    IF s = << >> THEN << >>
    ELSE IF s[Len(s)] \in WhiteSpace THEN rstrip(SubSeq(s, 1, Len(s) - 1)) ELSE s

\* str.strip()
strip(s) == rstrip(lstrip(s))

-----------------------------------------------------------------------------
(* str methods used on dates and names *)

UpperCase ==
    <<"A", "B", "C", "D", "E", "F", "G", "H", "I", "J", "K", "L", "M",
      "N", "O", "P", "Q", "R", "S", "T", "U", "V", "W", "X", "Y", "Z">>

LowerCase ==
    <<"a", "b", "c", "d", "e", "f", "g", "h", "i", "j", "k", "l", "m",
      "n", "o", "p", "q", "r", "s", "t", "u", "v", "w", "x", "y", "z">>

LowerChar(c) ==
    IF \E i \in 1..26 : UpperCase[i] = c
    THEN LowerCase[CHOOSE i \in 1..26 : UpperCase[i] = c] ELSE c

UpperChar(c) ==
    IF \E i \in 1..26 : LowerCase[i] = c
    THEN UpperCase[CHOOSE i \in 1..26 : LowerCase[i] = c] ELSE c

IsAlpha(c) == \E i \in 1..26 : UpperCase[i] = c \/ LowerCase[i] = c

\* str.lower()
lower(s) == [i \in 1..Len(s) |-> LowerChar(s[i])]

\* str.title() of a word of letters
title(s) ==
    [i \in 1..Len(s) |-> IF i = 1 THEN UpperChar(s[i]) ELSE LowerChar(s[i])]

DigitChars == <<"0", "1", "2", "3", "4", "5", "6", "7", "8", "9">>

IsDigit(c) == \E i \in 1..10 : DigitChars[i] = c

DigitValue(c) == (CHOOSE i \in 1..10 : DigitChars[i] = c) - 1

AllDigits(s) == \A i \in 1..Len(s) : IsDigit(s[i])

RECURSIVE int(_)
int(s) ==
    IF s = << >> THEN 0
    ELSE 10 * int(SubSeq(s, 1, Len(s) - 1)) + DigitValue(s[Len(s)])

-----------------------------------------------------------------------------
(* datetime.strptime for the formats parse_date_flexible tries.  A format  *)
(* is three directives joined by one separator; a blank in a format        *)
(* matches a run of whitespace.  NoDate is the ValueError every caller     *)
(* turns into "no date".                                                   *)

NoDate == 0

MakeDate(y, m, d) == y * 10000 + m * 100 + d

IsLeap(y) == (y % 4 = 0 /\ y % 100 # 0) \/ y % 400 = 0

DaysInMonth(y, m) ==
    IF m = 2 THEN (IF IsLeap(y) THEN 29 ELSE 28)
    ELSE IF m \in {4, 6, 9, 11} THEN 30 ELSE 31

\* datetime.date(y, m, d), NoDate where it raises ValueError
date(y, m, d) ==
    IF y >= 1 /\ y <= 9999 /\ m \in 1..12 /\ d >= 1 /\ d <= DaysInMonth(y, m)
    THEN MakeDate(y, m, d) ELSE NoDate

MonthAbbr ==
    <<<<"j", "a", "n">>, <<"f", "e", "b">>, <<"m", "a", "r">>, <<"a", "p", "r">>,
      <<"m", "a", "y">>, <<"j", "u", "n">>, <<"j", "u", "l">>, <<"a", "u", "g">>,
      <<"s", "e", "p">>, <<"o", "c", "t">>, <<"n", "o", "v">>, <<"d", "e", "c">>>>

MonthName ==
    <<<<"j", "a", "n", "u", "a", "r", "y">>,
      <<"f", "e", "b", "r", "u", "a", "r", "y">>,
      <<"m", "a", "r", "c", "h">>, <<"a", "p", "r", "i", "l">>,
      <<"m", "a", "y">>, <<"j", "u", "n", "e">>, <<"j", "u", "l", "y">>,
      <<"a", "u", "g", "u", "s", "t">>,
      <<"s", "e", "p", "t", "e", "m", "b", "e", "r">>,
      <<"o", "c", "t", "o", "b", "e", "r">>,
      <<"n", "o", "v", "e", "m", "b", "e", "r">>,
      <<"d", "e", "c", "e", "m", "b", "e", "r">>>>

\* Tokens of a string split at every occurrence of the character sep
RECURSIVE SplitAt(_, _)
SplitAt(s, sep) ==
    IF \A i \in 1..Len(s) : s[i] # sep THEN <<s>>
    ELSE LET i == CHOOSE k \in 1..Len(s) :
                      s[k] = sep /\ \A j \in 1..(k - 1) : s[j] # sep
         IN <<SubSeq(s, 1, i - 1)>> \o SplitAt(SubSeq(s, i + 1, Len(s)), sep)

\* Tokens of a string split at every run of whitespace (\s+ between
\* directives); a string that starts or ends with whitespace yields an
\* empty first or last token
RECURSIVE SplitWhiteSpace(_)
SplitWhiteSpace(s) ==
    IF \A i \in 1..Len(s) : s[i] \notin WhiteSpace THEN <<s>>
    ELSE LET i == CHOOSE k \in 1..Len(s) :
                      s[k] \in WhiteSpace /\ \A j \in 1..(k - 1) : s[j] \notin WhiteSpace
         IN <<SubSeq(s, 1, i - 1)>>
            \o SplitWhiteSpace(lstrip(SubSeq(s, i + 1, Len(s))))

\* The value a directive reads from a token it matches entirely, -1 when it
\* does not match (the regular expressions of _strptime.TimeRE)
DirectiveValue(directive, tok) ==
    CASE directive = "Y" ->
            IF Len(tok) = 4 /\ AllDigits(tok) THEN int(tok) ELSE -1
      [] directive = "y" ->
            IF Len(tok) = 2 /\ AllDigits(tok)
            THEN (IF int(tok) <= 68 THEN 2000 + int(tok) ELSE 1900 + int(tok))
            ELSE -1
      [] directive = "m" ->
            IF Len(tok) \in 1..2 /\ AllDigits(tok) /\ int(tok) \in 1..12
            THEN int(tok) ELSE -1
      [] directive = "d" ->
            IF Len(tok) \in 1..2 /\ AllDigits(tok) /\ int(tok) \in 1..31
            THEN int(tok)
            ELSE IF Len(tok) = 2 /\ tok[1] = " " /\ IsDigit(tok[2]) /\ tok[2] # "0"
            THEN int(<<tok[2]>>) ELSE -1
      [] directive = "b" ->
            IF \E i \in 1..12 : MonthAbbr[i] = lower(tok)
            THEN CHOOSE i \in 1..12 : MonthAbbr[i] = lower(tok) ELSE -1
      [] directive = "B" ->
            IF \E i \in 1..12 : MonthName[i] = lower(tok)
            THEN CHOOSE i \in 1..12 : MonthName[i] = lower(tok) ELSE -1

Format(d1, sep, d2, d3) == [directives |-> <<d1, d2, d3>>, sep |-> sep]

IsYear(directive) == directive \in {"Y", "y"}

IsMonth(directive) == directive \in {"m", "b", "B"}

strptime(s, fmt) ==
    LET toks == IF fmt.sep = " " THEN SplitWhiteSpace(s) ELSE SplitAt(s, fmt.sep)
    IN IF Len(toks) # 3 THEN NoDate
       ELSE LET v == <<DirectiveValue(fmt.directives[1], toks[1]),
                       DirectiveValue(fmt.directives[2], toks[2]),
                       DirectiveValue(fmt.directives[3], toks[3])>>
                yi == CHOOSE i \in 1..3 : IsYear(fmt.directives[i])
                mi == CHOOSE i \in 1..3 : IsMonth(fmt.directives[i])
                di == CHOOSE i \in 1..3 : fmt.directives[i] = "d"
            IN IF \E i \in 1..3 : v[i] = -1 THEN NoDate
               ELSE date(v[yi], v[mi], v[di])

\* formats, in the order they are tried
formats ==
    <<Format("Y", "-", "m", "d"), Format("m", "/", "d", "Y"),
      Format("m", "-", "d", "Y"), Format("d", "-", "b", "Y"),
      Format("d", "-", "B", "Y"), Format("d", " ", "b", "Y"),
      Format("d", " ", "B", "Y"), Format("Y", " ", "B", "d"),
      Format("b", " ", "d", "Y"), Format("B", " ", "d", "Y"),
      Format("m", "/", "d", "y"), Format("d", "/", "m", "Y")>>

RECURSIVE TryFormats(_, _)
TryFormats(s, i) ==
    IF i > Len(formats) THEN NoDate
    ELSE LET parsed == strptime(s, formats[i])
         IN IF parsed # NoDate THEN parsed ELSE TryFormats(s, i + 1)

-----------------------------------------------------------------------------
(* parse_date_flexible (validators.py) *)

\* re.match(r'^(\d{1,2})([A-Za-z]{3})(\d{4})$', date_str)
ddmmmyyyy_match(s) ==
    /\ Len(s) \in {8, 9}
    /\ AllDigits(SubSeq(s, 1, Len(s) - 7))
    /\ \A i \in (Len(s) - 6)..(Len(s) - 4) : IsAlpha(s[i])
    /\ AllDigits(SubSeq(s, Len(s) - 3, Len(s)))

\* Mutant: the compact form is left as it is.
Normalized_Unchanged(s) == s

Normalized(s) ==
    IF ddmmmyyyy_match(s)
    THEN SubSeq(s, 1, Len(s) - 7) \o <<"-">>
         \o title(SubSeq(s, Len(s) - 6, Len(s) - 4)) \o <<"-">>
         \o SubSeq(s, Len(s) - 3, Len(s))
    ELSE s

\* re.search(r'(\d{4}-\d{2}-\d{2})', date_str): the start of the leftmost
\* match, 0 when there is none
YmdAt(s, i) ==
    /\ i + 9 <= Len(s)
    /\ AllDigits(SubSeq(s, i, i + 3)) /\ s[i + 4] = "-"
    /\ AllDigits(SubSeq(s, i + 5, i + 6)) /\ s[i + 7] = "-"
    /\ AllDigits(SubSeq(s, i + 8, i + 9))

ymd_match(s) ==
    IF \E i \in 1..Len(s) : YmdAt(s, i)
    THEN SubSeq(s, (CHOOSE i \in 1..Len(s) :
                        YmdAt(s, i) /\ \A j \in 1..(i - 1) : ~YmdAt(s, j)),
                (CHOOSE i \in 1..Len(s) :
                        YmdAt(s, i) /\ \A j \in 1..(i - 1) : ~YmdAt(s, j)) + 9)
    ELSE << >>

\* re.search(r'(\d{1,2}/\d{1,2}/\d{4})', date_str): at start i with a
\* month of a digits and a day of b digits
MdyAt(s, i, a, b) ==
    /\ i + a + b + 5 <= Len(s)
    /\ AllDigits(SubSeq(s, i, i + a - 1)) /\ s[i + a] = "/"
    /\ AllDigits(SubSeq(s, i + a + 1, i + a + b)) /\ s[i + a + b + 1] = "/"
    /\ AllDigits(SubSeq(s, i + a + b + 2, i + a + b + 5))

MdyStarts(s) ==
    {i \in 1..Len(s) : \E a \in 1..2 : \E b \in 1..2 : MdyAt(s, i, a, b)}

mdy_match(s) ==
    IF MdyStarts(s) = {} THEN << >>
    ELSE LET i == CHOOSE k \in MdyStarts(s) : \A j \in MdyStarts(s) : k <= j
             a == CHOOSE k \in 1..2 : \E b \in 1..2 : MdyAt(s, i, k, b)
             b == CHOOSE k \in 1..2 : MdyAt(s, i, a, k)
         IN SubSeq(s, i, i + a + b + 5)

NullWords == {<<"n", "u", "l", "l">>, <<"n", "/", "a">>, << >>}

parse_date_flexible(date_str) ==
    IF ~Truthy(date_str) \/ lower(date_str) \in NullWords THEN NoDate
    ELSE LET s == Normalized(strip(date_str))
         IN IF TryFormats(s, 1) # NoDate THEN TryFormats(s, 1)
            ELSE IF ymd_match(s) # << >>
                    /\ strptime(ymd_match(s), Format("Y", "-", "m", "d")) # NoDate
            THEN strptime(ymd_match(s), Format("Y", "-", "m", "d"))
            ELSE IF mdy_match(s) # << >>
            THEN strptime(mdy_match(s), Format("m", "/", "d", "Y"))
            ELSE NoDate

-----------------------------------------------------------------------------
(* The document type catalog *)

CatalogTypes ==
    {"I797", "I797C", "I129", "PERM", "PWD", "LCA", "I94", "EAD",
     "GREEN_CARD", "US_PASSPORT", "FOREIGN_PASSPORT", "VISA_STAMP"}

\* one (type, confidence) pair of a detection list
Detection(type, confidence) == [type |-> type, confidence |-> confidence]

UNKNOWN == "UNKNOWN"

UnknownConfidence == 30

-----------------------------------------------------------------------------
(* Text search: "sub in text" and the re.search patterns of the page        *)
(* classifier and the continuation detector.  The patterns searched with    *)
(* re.IGNORECASE are searched in the lower-cased text.                      *)

\* s[j:].startswith(sub), for a sub that is not empty
At(s, j, sub) ==
    /\ j + Len(sub) - 1 <= Len(s)
    /\ s[j] = sub[1]
    /\ SubSeq(s, j, j + Len(sub) - 1) = sub

\* sub in s
In(sub, s) == \E i \in 1..(Len(s) - Len(sub) + 1) : At(s, i, sub)

\* [phrase in s for phrase in phrases]
EachIn(phrases, s) == [k \in DOMAIN phrases |-> In(phrases[k], s)]

\* any(...) and all(...) of a list of booleans
any(flags) == \E k \in DOMAIN flags : flags[k]

all(flags) == \A k \in DOMAIN flags : flags[k]

IsLower(c) == \E i \in 1..26 : LowerCase[i] = c

\* [A-Z0-9] under re.IGNORECASE, in lower-cased text
IsLowerAlnum(c) == IsLower(c) \/ IsDigit(c)

\* \w
IsWordChar(c) == IsAlpha(c) \/ IsDigit(c) \/ c = "_"

\* n characters of a class from position j on
RunAt(s, j, n, Class(_)) ==
    j + n - 1 <= Len(s) /\ \A k \in j..(j + n - 1) : Class(s[k])

\* re.search(literal + ".*" + tail, s): "." matches no line break
SearchThen(s, literal, TailAt(_)) ==
    \E i \in 1..(Len(s) - Len(literal) + 1) :
        /\ At(s, i, literal)
        /\ \E j \in (i + Len(literal))..(Len(s) + 1) :
              /\ \A k \in (i + Len(literal))..(j - 1) : s[k] # "\n"
              /\ TailAt(j)

\* r'receipt number.*[A-Z]{3}\d{10}', re.IGNORECASE
receipt_number_match(text_lower) ==
    SearchThen(text_lower, <<"r", "e", "c", "e", "i", "p", "t", " ", "n", "u", "m", "b", "e", "r">>,
               LAMBDA j : RunAt(text_lower, j, 3, IsLower)
                          /\ RunAt(text_lower, j + 3, 10, IsDigit))

\* r'i[-\s]?94'
i94_match(text_lower) ==
    \E i \in 1..Len(text_lower) :
        /\ text_lower[i] = "i"
        /\ \/ At(text_lower, i + 1, <<"9", "4">>)
           \/ /\ i + 1 <= Len(text_lower)
              /\ text_lower[i + 1] \in WhiteSpace \cup {"-"}
              /\ At(text_lower, i + 2, <<"9", "4">>)

\* r'uscis number.*[A-Z0-9]{9,}', re.IGNORECASE
ead_number_match(text_lower) ==
    SearchThen(text_lower, <<"u", "s", "c", "i", "s", " ", "n", "u", "m", "b", "e", "r">>,
               LAMBDA j : RunAt(text_lower, j, 9, IsLowerAlnum))

\* r'uscis.*[A-Z0-9]{9,}', re.IGNORECASE
gc_number_match(text_lower) ==
    SearchThen(text_lower, <<"u", "s", "c", "i", "s">>,
               LAMBDA j : RunAt(text_lower, j, 9, IsLowerAlnum))

\* r'passport.*united states|type.*p\b', re.IGNORECASE
us_passport_match(text_lower) ==
    \/ SearchThen(text_lower, <<"p", "a", "s", "s", "p", "o", "r", "t">>,
                  LAMBDA j : At(text_lower, j, <<"u", "n", "i", "t", "e", "d", " ", "s",
                      "t", "a", "t", "e", "s">>))
    \/ SearchThen(text_lower, <<"t", "y", "p", "e">>,
                  LAMBDA j : /\ j <= Len(text_lower)
                             /\ text_lower[j] = "p"
                             /\ \/ j = Len(text_lower)
                                \/ ~IsWordChar(text_lower[j + 1]))
-----------------------------------------------------------------------------
(* detect_document_types_on_page: the indicators of every catalog type,    *)
(* the detections they give, and the ranking of the detections             *)

\* any(case in text_lower for case in ['i-140', 'i-129'])
PetitionCase(text_lower) == any(EachIn(<<<<"i", "-", "1", "4", "0">>, <<"i", "-", "1",
    "2", "9">>>>, text_lower))

\* indicators (lines 205-346): the list of indicator booleans of each type
indicators(text, text_lower) ==
    [type \in CatalogTypes |->
        CASE type = "I797" ->
               <<In(<<"n", "o", "t", "i", "c", "e", " ", "o", "f", " ", "a", "c", "t",
                   "i", "o", "n">>, text_lower),
                 In(<<"i", "-", "7", "9", "7">>, text_lower),
                 In(<<"1", "-", "7", "9", "7">>, text_lower),
                 In(<<"I", "-", "7", "9", "7">>, text),
                 In(<<"1", "-", "7", "9", "7">>, text),
                 In(<<"u", "s", "c", "i", "s">>, text_lower),
                 In(<<"d", "e", "p", "a", "r", "t", "m", "e", "n", "t", " ", "o", "f",
                     " ", "h", "o", "m", "e", "l", "a", "n", "d", " ", "s", "e", "c", "u",
                         "r", "i", "t", "y">>, text_lower),
                 In(<<"u", ".", "s", ".", " ", "c", "i", "t", "i", "z", "e", "n", "s",
                     "h", "i", "p", " ", "a", "n", "d", " ", "i", "m", "m", "i", "g", "r",
                         "a", "t", "i", "o", "n", " ", "s", "e", "r", "v", "i", "c", "e",
                             "s">>, text_lower),
                 receipt_number_match(text_lower),
                 In(<<"a", "p", "p", "r", "o", "v", "a", "l", " ", "n", "o", "t", "i",
                     "c", "e">>, text_lower) /\ PetitionCase(text_lower)>>
          [] type = "I797C" ->
               <<In(<<"i", "-", "7", "9", "7", "c">>, text_lower) \/ In(<<"1", "-", "7",
                   "9", "7", "c">>, text_lower),
                 In(<<"n", "o", "t", "i", "c", "e", " ", "o", "f", " ", "a", "c", "t",
                     "i", "o", "n">>, text_lower) /\ In(<<"r", "e", "c", "e", "i", "p",
                         "t">>, text_lower),
                 In(<<"r", "e", "c", "e", "i", "p", "t", " ", "n", "o", "t", "i", "c",
                     "e">>, text_lower),
                 /\ In(<<"r", "e", "c", "e", "i", "p", "t", " ", "n", "u", "m", "b", "e",
                     "r">>, text_lower)
                 /\ PetitionCase(text_lower)
                 /\ ~In(<<"a", "p", "p", "r", "o", "v", "a", "l">>, text_lower)>>
          [] type = "I129" ->
               <<In(<<"i", "-", "1", "2", "9">>, text_lower),
                 In(<<"p", "e", "t", "i", "t", "i", "o", "n", " ", "f", "o", "r", " ",
                     "a", " ", "n", "o", "n", "i", "m", "m", "i", "g", "r", "a", "n", "t",
                         " ", "w", "o", "r", "k", "e", "r">>, text_lower),
                 ~In(<<"n", "o", "t", "i", "c", "e", " ", "o", "f", " ", "a", "c", "t",
                     "i", "o", "n">>, text_lower)>>
          [] type = "PERM" ->
               EachIn(<<<<"l", "a", "b", "o", "r", " ", "c", "e", "r", "t", "i", "f", "i",
                   "c", "a", "t", "i", "o", "n">>, <<"f", "o", "r", "m", " ", "9", "0",
                       "8", "9">>, <<"p", "e", "r", "m">>>>, text_lower)
          [] type = "PWD" ->
               EachIn(<<<<"p", "r", "e", "v", "a", "i", "l", "i", "n", "g", " ", "w", "a",
                   "g", "e">>, <<"f", "o", "r", "m", " ", "9", "1", "4", "1">>, <<"p",
                       "w", "d">>>>, text_lower)
          [] type = "LCA" ->
               EachIn(<<<<"e", "t", "a", "-", "9", "0", "3", "5">>, <<"e", "t", "a", " ",
                   "9", "0", "3", "5">>, <<"l", "a", "b", "o", "r", " ", "c", "o", "n",
                       "d", "i", "t", "i", "o", "n", " ", "a", "p", "p", "l", "i", "c",
                           "a", "t", "i", "o", "n">>,
                        <<"l", "c", "a">>, <<"f", "o", "r", "m", " ", "9", "0", "3",
                            "5">>>>, text_lower)
               \o <<In(<<"d", "e", "p", "a", "r", "t", "m", "e", "n", "t", " ", "o", "f",
                   " ", "l", "a", "b", "o", "r">>, text_lower)>>
          [] type = "I94" ->
               <<i94_match(text_lower),
                 any(EachIn(<<<<"a", "r", "r", "i", "v", "a", "l", " ", "d", "e", "p",
                     "a", "r", "t", "u", "r", "e">>, <<"a", "d", "m", "i", "s", "s", "i",
                         "o", "n", " ", "n", "u", "m", "b", "e", "r">>>>, text_lower))>>
          [] type = "EAD" ->
               <<any(EachIn(<<<<"e", "m", "p", "l", "o", "y", "m", "e", "n", "t", " ",
                   "a", "u", "t", "h", "o", "r", "i", "z", "a", "t", "i", "o",
                       "n">>, <<"e", "a", "d">>, <<"w", "o", "r", "k", " ", "p", "e", "r",
                           "m", "i", "t">>,
                              <<"i", "-", "7", "6", "6">>>>, text_lower)),
                 ead_number_match(text_lower)>>
          [] type = "GREEN_CARD" ->
               <<any(EachIn(<<<<"p", "e", "r", "m", "a", "n", "e", "n", "t", " ", "r",
                   "e", "s", "i", "d", "e", "n", "t", " ", "c", "a", "r", "d">>, <<"g",
                       "r", "e", "e", "n", " ", "c", "a", "r", "d">>, <<"i", "-", "5", "5", "1">>>>,
                            text_lower)),
                 gc_number_match(text_lower)>>
          [] type = "US_PASSPORT" -> <<us_passport_match(text_lower)>>
          [] type = "FOREIGN_PASSPORT" -> <<In(<<"p", "a", "s", "s", "p", "o", "r",
              "t">>, text_lower)>>
          [] type = "VISA_STAMP" ->
               <<any(EachIn(<<<<"v", "i", "s", "a">>, <<"e", "m", "b", "a", "s", "s",
                   "y">>, <<"c", "o", "n", "s", "u", "l", "a", "t", "e">>>>, text_lower)),
                 any(EachIn(<<<<"i", "m", "m", "i", "g", "r", "a", "n", "t">>, <<"n", "o",
                     "n", "i", "m", "m", "i", "g", "r", "a", "n", "t">>>>, text_lower))>>]

\* detections.append((type, confidence)) when the type's condition holds
Detected(condition, type, confidence) ==
    IF condition THEN <<Detection(type, confidence)>> ELSE << >>

\* Mutant: EAD is detected on any of its recorded indicators.
detections_EadAnyRecorded(ind) ==
    Detected(any(ind["I797"]), "I797", IF ind["I797"][9] THEN 95 ELSE 90)
    \o Detected(any(ind["I797C"]), "I797C", IF ind["I797"][9] THEN 90 ELSE 85)
    \o Detected(all(ind["I129"]), "I129", 85)
    \o Detected(any(ind["PERM"]), "PERM", 90)
    \o Detected(any(ind["PWD"]), "PWD", 85)
    \o Detected(any(SubSeq(ind["LCA"], 1, 5)), "LCA", IF ind["LCA"][6] THEN 95 ELSE 90)
    \o Detected(any(ind["I94"]), "I94", 80)
    \o Detected(any(ind["EAD"]), "EAD", IF ind["EAD"][2] THEN 90 ELSE 85)
    \o Detected(ind["GREEN_CARD"][1], "GREEN_CARD",
                IF ind["GREEN_CARD"][2] THEN 95 ELSE 90)
    \o (IF ind["US_PASSPORT"][1] THEN <<Detection("US_PASSPORT", 80)>>
        ELSE Detected(ind["FOREIGN_PASSPORT"][1], "FOREIGN_PASSPORT", 70))
    \o Detected(all(ind["VISA_STAMP"]), "VISA_STAMP", 80)

\* detections (lines 204-349), in the order the types are tested
detections(ind) ==
    Detected(any(ind["I797"]), "I797", IF ind["I797"][9] THEN 95 ELSE 90)
    \o Detected(any(ind["I797C"]), "I797C", IF ind["I797"][9] THEN 90 ELSE 85)
    \o Detected(all(ind["I129"]), "I129", 85)
    \o Detected(any(ind["PERM"]), "PERM", 90)
    \o Detected(any(ind["PWD"]), "PWD", 85)
    \o Detected(any(SubSeq(ind["LCA"], 1, 5)), "LCA", IF ind["LCA"][6] THEN 95 ELSE 90)
    \o Detected(any(ind["I94"]), "I94", 80)
    \o Detected(ind["EAD"][1], "EAD", IF ind["EAD"][2] THEN 90 ELSE 85)
    \o Detected(ind["GREEN_CARD"][1], "GREEN_CARD",
                IF ind["GREEN_CARD"][2] THEN 95 ELSE 90)
    \o (IF ind["US_PASSPORT"][1] THEN <<Detection("US_PASSPORT", 80)>>
        ELSE Detected(ind["FOREIGN_PASSPORT"][1], "FOREIGN_PASSPORT", 70))
    \o Detected(all(ind["VISA_STAMP"]), "VISA_STAMP", 80)

\* Mutant: a detection goes before the detections of its own confidence.
InsertByConfidence_BeforeEquals(ranked, e) ==
    LET n == Cardinality({j \in 1..Len(ranked) : ranked[j].confidence > e.confidence})
    IN SubSeq(ranked, 1, n) \o <<e>> \o SubSeq(ranked, n + 1, Len(ranked))

\* one step of sorted(key=lambda x: x[1], reverse=True): the sort is stable,
\* a detection goes after the detections whose confidence is not smaller
InsertByConfidence(ranked, e) ==
    LET n == Cardinality({j \in 1..Len(ranked) : ranked[j].confidence >= e.confidence})
    IN SubSeq(ranked, 1, n) \o <<e>> \o SubSeq(ranked, n + 1, Len(ranked))

\* sorted(detections, key=lambda x: x[1], reverse=True), line 357
RECURSIVE sorted_by_confidence(_)
sorted_by_confidence(found) ==
    IF found = << >> THEN << >>
    ELSE InsertByConfidence(sorted_by_confidence(SubSeq(found, 1, Len(found) - 1)),
                            found[Len(found)])

\* Mutant: page_length is the length of the stripped text.
Diagnostics_StrippedLength(text, ocr, ind) ==
    [page_length |-> Len(strip(text)), ocr_used |-> ocr,
     indicators_checked |-> ind]

\* diagnostics, lines 352-356
Diagnostics(text, ocr, ind) ==
    [page_length |-> Len(text), ocr_used |-> ocr,
     indicators_checked |-> ind]

\* lines 351-357 for the indicators of the page
DetectWith(text, ocr, ind) ==
    [detected_types |-> sorted_by_confidence(detections(ind)),
     diagnostics |-> Diagnostics(text, ocr, ind)]

detect_document_types_on_page(text, ocr) ==
    DetectWith(text, ocr, indicators(text, lower(text)))

-----------------------------------------------------------------------------
(* is_continuation_page *)

\* r'page \d+'
page_number_match(text_lower) ==
    \E i \in 1..Len(text_lower) :
        At(text_lower, i, <<"p", "a", "g", "e", " ">>) /\ RunAt(text_lower, i + 5, 1, IsDigit)

\* the end of a run of digits that starts at position j
DigitRunEnds(s, j) == {e \in j..Len(s) : \A k \in j..e : IsDigit(s[k])}

\* r'page \d+ of \d+'
page_of_match(text_lower) ==
    \E i \in 1..Len(text_lower) :
        /\ At(text_lower, i, <<"p", "a", "g", "e", " ">>)
        /\ \E e \in DigitRunEnds(text_lower, i + 5) :
              /\ At(text_lower, e + 1, <<" ", "o", "f", " ">>)
              /\ RunAt(text_lower, e + 5, 1, IsDigit)

\* continuation_indicators, lines 363-370
continuation_indicators(text_lower) ==
    <<page_number_match(text_lower),
      page_of_match(text_lower),
      In(<<"c", "o", "n", "t", "i", "n", "u", "e", "d">>, text_lower),
      In(<<"(", "c", "o", "n", "t", "i", "n", "u", "e", "d", ")">>, text_lower),
      In(<<"a", "t", "t", "a", "c", "h", "m", "e", "n", "t">>, text_lower),
      In(<<"e", "x", "h", "i", "b", "i", "t">>, text_lower)>>

ShortPage == 200

\* header_indicators, line 377
header_indicators == <<<<"f", "o", "r", "m">>, <<"d", "e", "p", "a", "r", "t", "m", "e",
    "n", "t">>, <<"c", "e", "r", "t", "i", "f", "i", "c", "a", "t", "e">>, <<"n", "o",
        "t", "i", "c", "e">>>>

\* Mutant: a short page is a continuation only when it has no header.
ContinuationOf_ShortAndHeaderless(text, text_lower) ==
    \/ any(continuation_indicators(text_lower))
    \/ Len(strip(text)) < ShortPage /\ ~any(EachIn(header_indicators, text_lower))

ContinuationOf(text, text_lower) ==
    \/ any(continuation_indicators(text_lower))
    \/ Len(strip(text)) < ShortPage
    \/ ~any(EachIn(header_indicators, text_lower))

is_continuation_page(text) == ContinuationOf(text, lower(text))

-----------------------------------------------------------------------------
(* DocumentSegment and create_segment *)

DocumentSegment(pages, doc_type, confidence, text) ==
    [pages |-> pages, doc_type |-> doc_type, confidence |-> confidence,
     text |-> text]

RECURSIVE combined_text(_, _)
combined_text(page_numbers, analyses) ==
    IF page_numbers = << >> THEN << >>
    ELSE analyses[Head(page_numbers) + 1].text \o <<"\n", "\n">>
         \o combined_text(Tail(page_numbers), analyses)

create_segment(page_numbers, doc_type, confidence, analyses) ==
    DocumentSegment(page_numbers, doc_type, confidence,
                    strip(combined_text(page_numbers, analyses)))

-----------------------------------------------------------------------------
(* group_pages_into_documents: the state of its loop and its branches *)

GroupInit ==
    [segments |-> << >>, current_segment_pages |-> << >>,
     current_doc_type |-> NoType, current_confidence |-> 0]

\* "Finish current segment" of both non-continuation branches
CloseCurrent(g, analyses) ==
    IF g.current_segment_pages # << >>
    THEN Append(g.segments,
                create_segment(g.current_segment_pages, g.current_doc_type,
                               g.current_confidence, analyses))
    ELSE g.segments

IsUnknownPage(pa) == pa.detected_types = << >> /\ ~pa.is_continuation

IsNewDocumentPage(pa) == pa.detected_types # << >> /\ ~pa.is_continuation

IsContinuationPage(pa) == ~IsUnknownPage(pa) /\ ~IsNewDocumentPage(pa)

\* Mutant: the open segment is discarded instead of emitted.
UnknownBranch_DropsOpenSegment(g, pa, analyses) ==
    [g EXCEPT
        !.segments = Append(g.segments,
                            create_segment(<<pa.page_num>>, UNKNOWN,
                                           UnknownConfidence, analyses)),
        !.current_segment_pages = << >>]

\* Mutant: the undetected page opens a segment of type UNKNOWN that later
\* continuation pages join.
UnknownBranch_OpensSegment(g, pa, analyses) ==
    [g EXCEPT
        !.segments = CloseCurrent(g, analyses),
        !.current_segment_pages = <<pa.page_num>>,
        !.current_doc_type = UNKNOWN,
        !.current_confidence = UnknownConfidence]

UnknownBranch(g, pa, analyses) ==
    [g EXCEPT
        !.segments = Append(CloseCurrent(g, analyses),
                            create_segment(<<pa.page_num>>, UNKNOWN,
                                           UnknownConfidence, analyses)),
        !.current_segment_pages =
            IF g.current_segment_pages # << >> THEN << >> ELSE @]

\* Mutant: the segment takes the last-ranked detection.
NewDocumentBranch_LastDetection(g, pa, analyses) ==
    [g EXCEPT
        !.segments = CloseCurrent(g, analyses),
        !.current_segment_pages = <<pa.page_num>>,
        !.current_doc_type = pa.detected_types[Len(pa.detected_types)].type,
        !.current_confidence =
            pa.detected_types[Len(pa.detected_types)].confidence]

NewDocumentBranch(g, pa, analyses) ==
    [g EXCEPT
        !.segments = CloseCurrent(g, analyses),
        !.current_segment_pages = <<pa.page_num>>,
        !.current_doc_type = pa.detected_types[1].type,
        !.current_confidence = pa.detected_types[1].confidence]

ContinuationBranch(g, pa, analyses) ==
    [g EXCEPT !.current_segment_pages = Append(@, pa.page_num)]

FinalSegment(g, analyses) == CloseCurrent(g, analyses)

GroupStep(g, pa, analyses) ==
    IF IsUnknownPage(pa) THEN UnknownBranch(g, pa, analyses)
    ELSE IF IsNewDocumentPage(pa) THEN NewDocumentBranch(g, pa, analyses)
    ELSE ContinuationBranch(g, pa, analyses)

RECURSIVE GroupLoop(_, _, _)
GroupLoop(g, i, analyses) ==
    IF i > Len(analyses) THEN g
    ELSE GroupLoop(GroupStep(g, analyses[i], analyses), i + 1, analyses)

group_pages_into_documents(analyses) ==
    FinalSegment(GroupLoop(GroupInit, 1, analyses), analyses)

-----------------------------------------------------------------------------
(* dict access and Python's "or" *)

\* d.get(k)
get(d, k) == IF k \in DOMAIN d THEN d[k] ELSE Null

\* d.get(k, default)
get_default(d, k, default) == IF k \in DOMAIN d THEN d[k] ELSE default

\* a or b
Or(a, b) == IF Truthy(a) THEN a ELSE b

\* f"{v}"
Fmt(v) == IF v = Null THEN NoneText ELSE v

\* f"{a} {b}"
Spaced(a, b) == Fmt(a) \o <<" ">> \o Fmt(b)

-----------------------------------------------------------------------------
(* consolidate_person_data: name, date of birth and key of a segment *)

NameResult(exc, name) == [raised |-> exc, name |-> name]

\* lines 701-734: an AttributeError (None.strip()) is raised = TRUE
TypeSpecificName(document_type, extracted_data) ==
    CASE document_type = "I94" ->
            LET first_raw == Or(Or(get(extracted_data, "first_name"),
                                   get(extracted_data, "first_given_name")),
                                get_default(extracted_data, "given_name", << >>))
                last_raw == Or(Or(get(extracted_data, "last_name"),
                                  get(extracted_data, "lastsurname")),
                               get_default(extracted_data, "surname", << >>))
            IN IF first_raw = Null \/ last_raw = Null THEN NameResult(TRUE, Null)
               ELSE LET first == strip(first_raw)
                        last == strip(last_raw)
                    IN IF Truthy(first) /\ Truthy(last)
                       THEN NameResult(FALSE, Spaced(first, last))
                       ELSE IF Truthy(first) THEN NameResult(FALSE, first)
                       ELSE IF Truthy(last) THEN NameResult(FALSE, last)
                       ELSE NameResult(FALSE, Null)
      [] document_type \in {"I797", "I797C"} ->
            NameResult(FALSE, get(extracted_data, "beneficiary"))
      [] document_type = "I129" ->
            LET given == Or(get(extracted_data, "given_name"),
                            get_default(extracted_data, "given_name_first_name", << >>))
                family == Or(get(extracted_data, "family_name"),
                             get_default(extracted_data, "family_name_last_name", << >>))
            IN IF Truthy(given) /\ Truthy(family)
               THEN NameResult(FALSE, Spaced(given, family))
               ELSE NameResult(FALSE, Null)
      [] document_type \in {"EAD", "GREEN_CARD"} ->
            NameResult(FALSE, get(extracted_data, "full_name"))
      [] document_type \in {"US_PASSPORT", "FOREIGN_PASSPORT"} ->
            NameResult(FALSE, get(extracted_data, "holder_name"))
      [] document_type = "VISA_STAMP" ->
            LET given == get_default(extracted_data, "given_name", << >>)
                surname == get_default(extracted_data, "surname", << >>)
            IN IF Truthy(given) /\ Truthy(surname)
               THEN NameResult(FALSE, Spaced(given, surname))
               ELSE NameResult(FALSE, Null)
      [] OTHER -> NameResult(FALSE, Null)

\* lines 736-744
FallbackName(extracted_data) ==
    Or(Or(Or(Or(Or(get(extracted_data, "beneficiary"),
                   get(extracted_data, "full_name")),
                get(extracted_data, "holder_name")),
             strip(Spaced(get_default(extracted_data, "first_name", << >>),
                          get_default(extracted_data, "last_name", << >>)))),
          strip(Spaced(get_default(extracted_data, "given_name", << >>),
                       get_default(extracted_data, "surname", << >>)))),
       Null)

\* person_name after lines 698-744
ResolveName(document_type, extracted_data) ==
    LET specific == TypeSpecificName(document_type, extracted_data)
    IN IF specific.raised THEN specific
       ELSE IF ~Truthy(specific.name)
       THEN NameResult(FALSE, FallbackName(extracted_data))
       ELSE specific

\* dob, lines 746-748
ResolveDob(extracted_data) ==
    Or(Or(get(extracted_data, "date_of_birth"), get(extracted_data, "birth_date")),
       get(extracted_data, "date_of_birth_mmddyyyy"))

\* person_key, line 758
PersonKey(person_name, dob) ==
    IF Truthy(dob) THEN person_name \o <<"_">> \o dob ELSE person_name

-----------------------------------------------------------------------------
(* person_records: a dict in insertion order, a sequence of PersonRecord   *)
(* each carrying its key                                                   *)

HasKey(records, key) == \E i \in 1..Len(records) : records[i].key = key

KeyIndex(records, key) == CHOOSE i \in 1..Len(records) : records[i].key = key

Keys(records) == {records[i].key : i \in 1..Len(records)}

NewPersonRecord(key, person_name, dob) ==
    [key |-> key, name |-> person_name, date_of_birth |-> dob,
     documents |-> << >>, timeline |-> << >>, inconsistencies |-> << >>]

-----------------------------------------------------------------------------
(* the timeline: list.sort(key=lambda x: x.get('parsed_date') or date.min) *)

DateMin == MakeDate(1, 1, 1)

SortKey(entry) ==
    IF entry.parsed_date # NoDate THEN entry.parsed_date ELSE DateMin

\* one step of a stable insertion: e goes after every entry whose key is
\* not greater
StableInsert(sorted, e) ==
    LET before == {i \in 0..Len(sorted) :
                      \A j \in 1..i : SortKey(sorted[j]) <= SortKey(e)}
        n == CHOOSE i \in before : \A j \in before : j <= i
    IN SubSeq(sorted, 1, n) \o <<e>> \o SubSeq(sorted, n + 1, Len(sorted))

RECURSIVE StableSort(_)
StableSort(entries) ==
    IF entries = << >> THEN << >>
    ELSE StableInsert(StableSort(SubSeq(entries, 1, Len(entries) - 1)),
                      entries[Len(entries)])

\* doc_date_raw, lines 778-785
DocDateRaw(extracted_data) ==
    Or(Or(Or(Or(Or(get(extracted_data, "notice_date"),
                   get(extracted_data, "issue_date")),
                get(extracted_data, "received_date")),
             get(extracted_data, "arrival_date")),
          get(extracted_data, "arrivalissued_date")),
       get(extracted_data, "expiration_date"))

TimelineEntry(doc_date_raw, parsed_doc_date, document_type) ==
    [date |-> doc_date_raw, parsed_date |-> parsed_doc_date,
     document |-> document_type, event |-> <<document_type, " processed">>]

\* Mutant: the timeline is left in order of arrival.
UpdateTimeline_NoSort(timeline, segment_result) ==
    LET doc_date_raw == DocDateRaw(segment_result.extracted_data)
        parsed_doc_date == parse_date_flexible(doc_date_raw)
    IN IF parsed_doc_date # NoDate
       THEN Append(timeline, TimelineEntry(doc_date_raw, parsed_doc_date,
                                           segment_result.document_type))
       ELSE timeline

\* lines 787-799
UpdateTimeline(timeline, segment_result) ==
    LET doc_date_raw == DocDateRaw(segment_result.extracted_data)
        parsed_doc_date == parse_date_flexible(doc_date_raw)
    IN IF parsed_doc_date # NoDate
       THEN StableSort(Append(timeline,
                              TimelineEntry(doc_date_raw, parsed_doc_date,
                                            segment_result.document_type)))
       ELSE timeline

-----------------------------------------------------------------------------
(* check_person_data_consistency.  An inconsistency string               *)
(* "Name variations: a, b" is its label and the set it joins (a set is     *)
(* joined in no fixed order).                                              *)

NameOf(data) ==
    Or(Or(get(data, "beneficiary"), get(data, "full_name")), get(data, "holder_name"))

DobOf(data) == Or(get(data, "date_of_birth"), get(data, "birth_date"))

CountryOf(data) ==
    Or(Or(get(data, "country_of_citizenship"), get(data, "country_of_birth")),
       get(data, "nationality"))

\* Mutant: every name field of every document is collected.
unique_names_AllFields(documents) ==
    {v \in {get(documents[j].data, f) : j \in 1..Len(documents),
                f \in {"beneficiary", "full_name", "holder_name"}} : Truthy(v)}

unique_names(documents) ==
    {NameOf(documents[i].data) : i \in {j \in 1..Len(documents) :
                                            Truthy(NameOf(documents[j].data))}}

unique_dobs(documents) ==
    {DobOf(documents[i].data) : i \in {j \in 1..Len(documents) :
                                           Truthy(DobOf(documents[j].data))}}

unique_countries(documents) ==
    {CountryOf(documents[i].data) : i \in {j \in 1..Len(documents) :
                                               Truthy(CountryOf(documents[j].data))}}

Variation(label, values) == [label |-> label, values |-> values]

Inconsistencies(documents) ==
    (IF Cardinality(unique_names(documents)) > 1
     THEN <<Variation("Name variations", unique_names(documents))>> ELSE << >>)
    \o (IF Cardinality(unique_dobs(documents)) > 1
        THEN <<Variation("DOB variations", unique_dobs(documents))>> ELSE << >>)
    \o (IF Cardinality(unique_countries(documents)) > 1
        THEN <<Variation("Country variations", unique_countries(documents))>>
        ELSE << >>)

\* Mutant: the entries found are appended to the list of the record.
check_person_data_consistency_Appends(person_record) ==
    IF Len(person_record.documents) < 2 THEN person_record
    ELSE [person_record EXCEPT
             !.inconsistencies = @ \o Inconsistencies(person_record.documents)]

check_person_data_consistency(person_record) ==
    IF Len(person_record.documents) < 2 THEN person_record
    ELSE [person_record EXCEPT
             !.inconsistencies = Inconsistencies(person_record.documents)]

-----------------------------------------------------------------------------
(* consolidate_person_data *)

DocumentEntry(segment_result) ==
    [type |-> segment_result.document_type, pages |-> segment_result.pages,
     data |-> segment_result.extracted_data]

\* Mutant: the key is never found, every segment creates a record.
MergeDocument_AlwaysNewRecord(records, segment_result, person_name, dob) ==
    LET person_key == PersonKey(person_name, dob)
        person_record == NewPersonRecord(person_key, person_name, dob)
        with_document == [person_record EXCEPT
                             !.documents = Append(@, DocumentEntry(segment_result)),
                             !.timeline = UpdateTimeline(@, segment_result)]
    IN Append(records, check_person_data_consistency(with_document))

\* lines 760-801 for a resolved name
MergeDocument(records, segment_result, person_name, dob) ==
    LET person_key == PersonKey(person_name, dob)
        with_key == IF HasKey(records, person_key) THEN records
                    ELSE Append(records, NewPersonRecord(person_key, person_name, dob))
        i == KeyIndex(with_key, person_key)
        person_record == with_key[i]
        with_document == [person_record EXCEPT
                             !.documents = Append(@, DocumentEntry(segment_result)),
                             !.timeline = UpdateTimeline(@, segment_result)]
    IN [with_key EXCEPT ![i] = check_person_data_consistency(with_document)]

ConsolidateResult(exc, records) == [raised |-> exc, person_records |-> records]

consolidate_person_data(segment_result, records) ==
    LET resolved == ResolveName(segment_result.document_type,
                                segment_result.extracted_data)
        dob == ResolveDob(segment_result.extracted_data)
    IN IF resolved.raised THEN ConsolidateResult(TRUE, records)
       ELSE IF ~Truthy(resolved.name) THEN ConsolidateResult(FALSE, records)
       ELSE ConsolidateResult(FALSE,
                MergeDocument(records, segment_result, resolved.name, dob))

-----------------------------------------------------------------------------
(* Inputs of the segment grouper: what analyze_pdf_by_pages hands it *)

\* Ranked detection lists detect_document_types_on_page returns
DetectionInputs ==
    {<< >>,
     <<Detection("I94", 80)>>,
     <<Detection("I797", 95), Detection("I797C", 90)>>,
     <<Detection("LCA", 95), Detection("PERM", 90)>>}

PageTextInputs == {<< >>, <<"x">>}

PageAnalysis(n, text, found, continuation) ==
    [page_num |-> n, text |-> text, detected_types |-> found,
     is_continuation |-> continuation]

\* what the first pass can find on one page
PageInputs ==
    [text : PageTextInputs, detected_types : DetectionInputs, is_continuation : BOOLEAN]

PageAnalysesOfLength(n) == [1..n -> PageInputs]

NumberPages(f) ==
    [i \in DOMAIN f |->
        PageAnalysis(i - 1, f[i].text, f[i].detected_types, f[i].is_continuation)]

-----------------------------------------------------------------------------
(* The segment grouper as a state machine: one action per loop branch *)

GrouperState ==
    [segments |-> segments, current_segment_pages |-> current_segment_pages,
     current_doc_type |-> current_doc_type,
     current_confidence |-> current_confidence]

SetGrouperState(g) ==
    /\ segments' = g.segments
    /\ current_segment_pages' = g.current_segment_pages
    /\ current_doc_type' = g.current_doc_type
    /\ current_confidence' = g.current_confidence

\* The parts of the state a specification of one component does not use
GrouperIdle ==
    /\ page_analyses = << >>
    /\ page_idx = 0
    /\ segments = << >>
    /\ current_segment_pages = << >>
    /\ current_doc_type = NoType
    /\ current_confidence = 0
    /\ grouped = FALSE

ConsolidatorIdle ==
    /\ person_records = << >>
    /\ history = << >>
    /\ raised = FALSE

PipelineIdle ==
    /\ options = << >>
    /\ pc = "idle"
    /\ segments_found = 0
    /\ documents_processed = << >>
    /\ validation_errors = << >>
    /\ processing_summary = << >>
    /\ llm_failures = {}

\* detect_document_types_on_page has not returned yet
NotDetected == << >>

\* is_continuation_page has not returned yet
NotChecked == << >>

ClassifierIdle ==
    /\ page_text = << >>
    /\ ocr_used = FALSE
    /\ detected = NotDetected
    /\ is_continuation = NotChecked

\* a function that has not returned yet
NotReturned == << >>

ValidatorIdle ==
    /\ person_data = << >>
    /\ completeness = NotReturned
    /\ date_input = << >>
    /\ date_parsed = NotReturned
    /\ date_range = NotReturned

GrouperInit ==
    /\ \E n \in 0..MaxPages : \E f \in PageAnalysesOfLength(n) :
        page_analyses = NumberPages(f)
    /\ page_idx = 0
    /\ segments = GroupInit.segments
    /\ current_segment_pages = GroupInit.current_segment_pages
    /\ current_doc_type = GroupInit.current_doc_type
    /\ current_confidence = GroupInit.current_confidence
    /\ grouped = FALSE
    /\ ConsolidatorIdle
    /\ PipelineIdle
    /\ ClassifierIdle
    /\ ValidatorIdle

NextPage == page_analyses[page_idx + 1]

GroupUnknownPage ==
    /\ ~grouped /\ page_idx < Len(page_analyses)
    /\ IsUnknownPage(NextPage)
    /\ SetGrouperState(UnknownBranch(GrouperState, NextPage, page_analyses))
    /\ page_idx' = page_idx + 1
    /\ UNCHANGED <<classifier_vars, validator_vars, page_analyses, grouped,
                   consolidator_vars, pipeline_vars>>

GroupNewDocumentPage ==
    /\ ~grouped /\ page_idx < Len(page_analyses)
    /\ IsNewDocumentPage(NextPage)
    /\ SetGrouperState(NewDocumentBranch(GrouperState, NextPage, page_analyses))
    /\ page_idx' = page_idx + 1
    /\ UNCHANGED <<classifier_vars, validator_vars, page_analyses, grouped,
                   consolidator_vars, pipeline_vars>>

GroupContinuationPage ==
    /\ ~grouped /\ page_idx < Len(page_analyses)
    /\ IsContinuationPage(NextPage)
    /\ SetGrouperState(ContinuationBranch(GrouperState, NextPage, page_analyses))
    /\ page_idx' = page_idx + 1
    /\ UNCHANGED <<classifier_vars, validator_vars, page_analyses, grouped,
                   consolidator_vars, pipeline_vars>>

GroupFinal ==
    /\ ~grouped /\ page_idx = Len(page_analyses)
    /\ segments' = FinalSegment(GrouperState, page_analyses)
    /\ grouped' = TRUE
    /\ UNCHANGED <<page_analyses, page_idx, current_segment_pages,
                   current_doc_type, current_confidence>>
    /\ UNCHANGED <<classifier_vars, validator_vars, consolidator_vars, pipeline_vars>>

GrouperNext ==
    \/ GroupUnknownPage
    \/ GroupNewDocumentPage
    \/ GroupContinuationPage
    \/ GroupFinal

SpecGrouper == GrouperInit /\ [][GrouperNext]_vars

-----------------------------------------------------------------------------
(* The page classifier and the continuation detector applied to one page.  *)
(* A page text is a concatenation of up to MaxFragments fragments.         *)

Filler ==
    <<"T", "h", "e", " ", "a", "p", "p", "l", "i", "c", "a", "n", "t", " ", "h", "a", "s",
      " ", "p", "r", "o", "v", "i", "d", "e", "d", " ", "t", "h", "e", " ", "s", "u", "p",
      "p", "o", "r", "t", "i", "n", "g", " ", "m", "a", "t", "e", "r", "i", "a", "l", " ",
      "t", "h", "a", "t", " ", "t", "h", "e", " ", "r", "e", "g", "u", "l", "a", "t", "i",
      "o", "n", "s", " ", "r", "e", "q", "u", "i", "r", "e", " ", "a", "n", "d", " ", "t",
      "h", "e", " ", "o", "f", "f", "i", "c", "e", "r", " ", "h", "a", "s", " ", "r", "e",
      "v", "i", "e", "w", "e", "d", " ", "a", "l", "l", " ", "o", "f", " ", "i", "t", " ",
      "i", "n", " ", "f", "u", "l", "l", ".", " ", "N", "o", "t", "h", "i", "n", "g", " ",
      "f", "u", "r", "t", "h", "e", "r", " ", "i", "s", " ", "r", "e", "q", "u", "e", "s",
      "t", "e", "d", " ", "f", "r", "o", "m", " ", "t", "h", "e", " ", "a", "p", "p", "l",
      "i", "c", "a", "n", "t", " ", "o", "r", " ", "f", "r", "o", "m", " ", "t", "h", "e",
      " ", "e", "m", "p", "l", "o", "y", "e", "r", " ", "a", "t", " ", "t", "h", "i", "s",
      " ", "t", "i", "m", "e", ".", "\n">>

Fragments ==
    <<<<"N", "o", "t", "i", "c", "e", " ", "o", "f", " ", "A", "c", "t", "i", "o", "n", "\n">>,
      <<"R", "e", "c", "e", "i", "p", "t", " ", "N", "u", "m", "b", "e", "r", " ", "A",
          "B", "C", "1", "2", "3", "4", "5", "6", "7", "8", "9", "0", "\n">>,
      <<"I", "-", "1", "2", "9", " ", "P", "e", "t", "i", "t", "i", "o", "n", " ", "f",
          "o", "r", " ", "a", " ", "N", "o", "n", "i", "m", "m", "i", "g", "r", "a", "n",
              "t", " ", "W", "o", "r", "k", "e", "r", "\n">>,
      <<"F", "o", "r", "m", " ", "9", "0", "8", "9", " ">>,
      <<"p", "r", "e", "v", "a", "i", "l", "i", "n", "g", " ", "w", "a", "g", "e", " ">>,
      <<"L", "C", "A", " ">>,
      <<"D", "e", "p", "a", "r", "t", "m", "e", "n", "t", " ", "o", "f", " ", "L", "a",
          "b", "o", "r", "\n">>,
      <<"I", "-", "9", "4", " ">>,
      <<"E", "A", "D", " ">>,
      <<"g", "r", "e", "e", "n", " ", "c", "a", "r", "d", " ">>,
      <<"p", "a", "s", "s", "p", "o", "r", "t", " ">>,
      <<"U", "n", "i", "t", "e", "d", " ", "S", "t", "a", "t", "e", "s", "\n">>,
      <<"v", "i", "s", "a", " ", "n", "o", "n", "i", "m", "m", "i", "g", "r", "a", "n", "t", " ">>,
      <<"U", "S", "C", "I", "S", " ", "N", "u", "m", "b", "e", "r", " ", "A", "B", "C",
          "1", "2", "3", "4", "5", "6", "\n">>,
      <<"R", "e", "c", "e", "i", "p", "t", " ", "N", "o", "t", "i", "c", "e", "\n">>>>

\* pieces of text with and without a continuation phrase, a header keyword
\* and an indicator, and ShortPage characters or more of plain text
ContinuationFragments ==
    <<Filler,
      <<"p", "a", "g", "e", " ", "2", " ">>,
      <<"E", "x", "h", "i", "b", "i", "t", " ", "t", "o", " ", "t", "h", "e", " ", "f",
          "o", "r", "m", "\n">>,
      <<"F", "o", "r", "m", " ", "9", "0", "8", "9", " ">>,
      <<"N", "o", "t", "i", "c", "e", " ", "o", "f", " ", "A", "c", "t", "i", "o", "n", "\n">>,
      <<"D", "e", "p", "a", "r", "t", "m", "e", "n", "t", " ", "o", "f", " ", "L", "a",
          "b", "o", "r", "\n">>,
      <<"g", "r", "e", "e", "n", " ", "c", "a", "r", "d", " ">>>>

MaxFragments == 2

RECURSIVE Join(_)
Join(parts) == IF parts = << >> THEN << >> ELSE Head(parts) \o Join(Tail(parts))

\* a page of up to MaxFragments of the fragments
ClassifierInitWith(fragments) ==
    /\ \E n \in 0..MaxFragments : \E f \in [1..n -> DOMAIN fragments] :
        page_text = Join([i \in 1..n |-> fragments[f[i]]])
    /\ ocr_used \in BOOLEAN
    /\ detected = NotDetected
    /\ is_continuation = NotChecked
    /\ GrouperIdle
    /\ ConsolidatorIdle
    /\ PipelineIdle
    /\ ValidatorIdle

ClassifierInit == ClassifierInitWith(Fragments)

ContinuationInit == ClassifierInitWith(ContinuationFragments)

\* detected_types, diagnostics = detect_document_types_on_page(page_text, ocr_used)
DetectTypes ==
    /\ detected = NotDetected
    /\ detected' = <<detect_document_types_on_page(page_text, ocr_used)>>
    /\ UNCHANGED <<page_text, ocr_used, is_continuation>>
    /\ UNCHANGED <<grouper_vars, consolidator_vars, pipeline_vars, validator_vars>>

\* is_continuation_page(page_text)
CheckContinuation ==
    /\ detected # NotDetected
    /\ is_continuation = NotChecked
    /\ is_continuation' = <<is_continuation_page(page_text)>>
    /\ UNCHANGED <<page_text, ocr_used, detected>>
    /\ UNCHANGED <<grouper_vars, consolidator_vars, pipeline_vars, validator_vars>>

ClassifierNext ==
    \/ DetectTypes
    \/ CheckContinuation

SpecClassifier == ClassifierInit /\ [][ClassifierNext]_vars

SpecContinuation == ContinuationInit /\ [][ClassifierNext]_vars

-----------------------------------------------------------------------------
(* process_document_segment's result, and what the field extraction may    *)
(* return: mappings of field names to strings or null                      *)

SegmentResult(pages, document_type, confidence, extracted_data, notes) ==
    [pages |-> pages, document_type |-> document_type, confidence |-> confidence,
     extracted_data |-> extracted_data, processing_notes |-> notes]

Extraction(document_type, extracted_data) ==
    [document_type |-> document_type, extracted_data |-> extracted_data]

EmptyDict == << >>

\* the union of two mappings with disjoint keys
Merged(d1, d2) == d1 @@ d2

AnnLee == <<"A", "n", "n", " ", "L", "e", "e">>

Ann == <<"A", "n", "n">>

Lee == <<"L", "e", "e">>

Bo == <<"B", "o">>

Dob1 == <<"1", "9", "9", "0", "-", "0", "5", "-", "0", "1">>

Dob2 == <<"1", "9", "8", "5", "-", "1", "2", "-", "3", "1">>

\* the error marker extract_with_llm returns when the call fails
ErrorMarker == "error" :> <<"L", "L", "M", " ", "e", "x", "t", "r", "a", "c", "t", "i",
    "o", "n", " ", "f", "a", "i", "l", "e", "d">>

\* a segment of a named person with each of the given date-of-birth fields
WithDobs(named, dobs) ==
    {Extraction(named.document_type, Merged(named.extracted_data, d)) : d \in dobs}

\* Segments whose name resolves, one person for each rule of
\* consolidate_person_data that "Ann Lee" or "Bo" can come from, without a
\* date of birth and with one in either field
NamedInputs ==
    WithDobs(Extraction("I797", "beneficiary" :> AnnLee),
             {EmptyDict, "date_of_birth" :> Dob1})
    \cup WithDobs(Extraction("I94", ("first_name" :> Ann) @@ ("last_name" :> Lee)),
                  {EmptyDict, "date_of_birth" :> Dob1})
    \cup WithDobs(Extraction("EAD", "full_name" :> AnnLee),
                  {EmptyDict, "birth_date" :> Dob1, "birth_date" :> Dob2})
    \cup WithDobs(Extraction("US_PASSPORT", "holder_name" :> Bo), {EmptyDict})
    \cup WithDobs(Extraction(UNKNOWN, "full_name" :> Bo),
                  {EmptyDict, "birth_date" :> Dob1})

\* Segments whose name-bearing fields are absent, null or empty
NamelessInputs ==
    {Extraction("I797", EmptyDict),
     Extraction("EAD", "full_name" :> Null),
     Extraction("FOREIGN_PASSPORT", "holder_name" :> << >>),
     Extraction("I94", ("first_name" :> Null) @@ ("last_name" :> Null)),
     Extraction("I94", ("first_name" :> Null) @@ ("last_name" :> Null)
                       @@ ("birth_date" :> Dob1)),
     Extraction("I94", "given_name" :> Null),
     Extraction(UNKNOWN, ErrorMarker)}

IdentityInputs == NamedInputs \cup NamelessInputs

MaxIdentitySegments == 3

ConsolidatorInit ==
    /\ GrouperIdle
    /\ ConsolidatorIdle
    /\ PipelineIdle
    /\ ClassifierIdle
    /\ ValidatorIdle

\* one call consolidate_person_data(segment_result, person_records)
Consolidate(extraction) ==
    LET segment_result == SegmentResult(<<Len(history)>>, extraction.document_type,
                                        80, extraction.extracted_data, << >>)
        outcome == consolidate_person_data(segment_result, person_records)
    IN /\ ~raised
       /\ history' = Append(history, segment_result)
       /\ raised' = outcome.raised
       /\ person_records' = outcome.person_records
       /\ UNCHANGED <<classifier_vars, validator_vars, grouper_vars, pipeline_vars>>

ConsolidateIdentity ==
    /\ Len(history) < MaxIdentitySegments
    /\ \E extraction \in IdentityInputs : Consolidate(extraction)

SpecIdentity == ConsolidatorInit /\ [][ConsolidateIdentity]_vars

-----------------------------------------------------------------------------
(* Consolidation of dated segments: the document dates a segment may carry, *)
(* for two people                                                           *)

InvalidDate == <<"i", "n", "v", "a", "l", "i", "d", "-", "d", "a", "t", "e">>

TimelineDateInputs ==
    {EmptyDict,
     "notice_date" :> <<"2", "0", "2", "4", "-", "0", "1", "-", "0", "1">>,
     "issue_date" :> <<"1", "9", "D", "E", "C", "1", "9", "9", "4">>,
     "received_date" :> <<"0", "3", "/", "1", "5", "/", "2", "0", "2", "3">>,
     "notice_date" :> InvalidDate,
     ("notice_date" :> InvalidDate) @@ ("issue_date" :> <<"2", "0", "2", "3", "-", "0",
         "6", "-", "0", "1">>),
     ("notice_date" :> Null) @@ ("expiration_date" :> <<"2", "0", "2", "5", "-", "1", "2",
         "-", "3", "1">>),
     "arrival_date" :> <<"2", "0", "2", "3", "-", "0", "2", "-", "3", "0">>,
     "arrivalissued_date" :> <<"I", "s", "s", "u", "e", "d", " ", "2", "0", "2", "2", "-",
         "0", "7", "-", "0", "4">>}

\* every dated segment of the first person, and a dated and an undated one of
\* the second
TimelineInputs ==
    {Extraction("I797", Merged("beneficiary" :> AnnLee, d)) : d \in TimelineDateInputs}
    \cup {Extraction("EAD", Merged("full_name" :> Bo, d)) :
            d \in {"notice_date" :> <<"2", "0", "2", "4", "-", "0", "1", "-", "0",
                "1">>, "notice_date" :> InvalidDate}}

MaxTimelineSegments == 3

ConsolidateTimeline ==
    /\ Len(history) < MaxTimelineSegments
    /\ \E extraction \in TimelineInputs : Consolidate(extraction)

SpecTimeline == ConsolidatorInit /\ [][ConsolidateTimeline]_vars

-----------------------------------------------------------------------------
(* Consolidation of one person's documents that agree or disagree on name,  *)
(* date of birth and country                                                *)

JohnDoe == <<"J", "o", "h", "n", " ", "D", "o", "e">>

JonDoe == <<"J", "o", "n", " ", "D", "o", "e">>

\* an I-94 of John Doe: the name consolidate_person_data resolves comes from
\* first_name and last_name, whatever the other name fields hold
JohnDoeI94(fields) ==
    Extraction("I94", Merged(("first_name" :> <<"J", "o", "h",
        "n">>) @@ ("last_name" :> <<"D", "o", "e">>),
                             fields))

ConsistencyNameInputs ==
    {EmptyDict,
     "full_name" :> JohnDoe,
     "full_name" :> JonDoe,
     ("beneficiary" :> JohnDoe) @@ ("full_name" :> JonDoe),
     ("beneficiary" :> Null) @@ ("holder_name" :> JonDoe),
     ("full_name" :> << >>) @@ ("holder_name" :> JohnDoe)}

ConsistencyCountryInputs ==
    {"country_of_citizenship" :> <<"I", "N">>,
     "nationality" :> <<"I", "N">>,
     "country_of_birth" :> <<"U", "K">>,
     ("country_of_citizenship" :> <<"I", "N">>) @@ ("country_of_birth" :> <<"U", "K">>)}

ConsistencyDobInputs ==
    {"birth_date" :> Dob1,
     ("date_of_birth" :> Dob1) @@ ("birth_date" :> Dob2),
     "date_of_birth_mmddyyyy" :> Dob1}

\* two people whose names and dates of birth differ and whose keys are equal
SameKeyInputs ==
    {Extraction("EAD", ("full_name" :> Bo) @@ ("date_of_birth" :> <<"1", "_", "2">>)),
     Extraction("EAD", ("full_name" :> (Bo \o <<"_", "1">>)) @@ ("date_of_birth" :> <<"2">>))}

ConsistencyInputs ==
    {JohnDoeI94(Merged(n, "date_of_birth" :> Dob1)) : n \in ConsistencyNameInputs}
    \cup {JohnDoeI94(Merged(("full_name" :> JohnDoe) @@ ("date_of_birth" :> Dob1), c)) :
            c \in ConsistencyCountryInputs}
    \cup {JohnDoeI94(Merged("full_name" :> JohnDoe, d)) : d \in ConsistencyDobInputs}
    \cup SameKeyInputs

MaxConsistencySegments == 3

ConsolidateConsistency ==
    /\ Len(history) < MaxConsistencySegments
    /\ \E extraction \in ConsistencyInputs : Consolidate(extraction)

SpecConsistency == ConsolidatorInit /\ [][ConsolidateConsistency]_vars

-----------------------------------------------------------------------------
(* check_case_completeness (validators.py) and the audit summary *)

AnyOf(types, doc_types) == \E i \in 1..Len(doc_types) : doc_types[i] \in types

\* Mutant: only a United States passport counts.
ContainsPassport_UsOnly(dt) == dt = "US_PASSPORT"

\* 'PASSPORT' in dt
ContainsPassport(dt) == dt \in {"US_PASSPORT", "FOREIGN_PASSPORT"}

CountTrue(flags) == Cardinality({i \in 1..Len(flags) : flags[i]})

total_expected == 6

SummaryResult(exc, value) == [raised |-> exc, value |-> value]

\* Mutant: a passport is reported missing only for a person with a petition.
check_case_completeness_PassportForPetition(data) ==
    LET doc_types == [i \in 1..Len(data.documents) |-> data.documents[i].type]
        has_petition == AnyOf({"I129", "I797", "I797C"}, doc_types)
        has_labor_cert == AnyOf({"PERM", "LCA"}, doc_types)
        has_passport == \E i \in 1..Len(doc_types) : ContainsPassport(doc_types[i])
        has_visa == AnyOf({"VISA_STAMP"}, doc_types)
        has_entry_record == AnyOf({"I94"}, doc_types)
        has_work_auth == AnyOf({"EAD", "GREEN_CARD"}, doc_types)
        missing_documents ==
            (IF has_labor_cert /\ ~has_petition
             THEN <<"I-129 petition or I-797 approval notice">> ELSE << >>)
            \o (IF has_petition /\ ~has_entry_record
                THEN <<"I-94 entry record">> ELSE << >>)
            \o (IF has_petition /\ ~has_passport THEN <<"Passport">> ELSE << >>)
            \o (IF ~has_work_auth
                THEN <<"Work authorization (EAD or Green Card)">> ELSE << >>)
        present_count == CountTrue(<<has_petition, has_labor_cert, has_passport,
                                     has_visa, has_entry_record, has_work_auth>>)
    IN IF \E i \in 1..Len(doc_types) :
             /\ doc_types[i] = NoType
             /\ \A j \in 1..(i - 1) : ~ContainsPassport(doc_types[j])
       THEN SummaryResult(TRUE, << >>)
       ELSE SummaryResult(FALSE,
                [has_petition |-> has_petition, has_labor_cert |-> has_labor_cert,
                 has_passport |-> has_passport, has_visa |-> has_visa,
                 has_entry_record |-> has_entry_record,
                 has_work_auth |-> has_work_auth,
                 missing_documents |-> missing_documents,
                 completeness_score |-> <<present_count, total_expected>>])

\* completeness_score is the fraction present_count / total_expected, kept as
\* its numerator and denominator.  'PASSPORT' in dt raises TypeError for a
\* document whose type is None, unless any() has stopped at a passport
\* before it.
check_case_completeness(data) ==
    LET doc_types == [i \in 1..Len(data.documents) |-> data.documents[i].type]
        has_petition == AnyOf({"I129", "I797", "I797C"}, doc_types)
        has_labor_cert == AnyOf({"PERM", "LCA"}, doc_types)
        has_passport == \E i \in 1..Len(doc_types) : ContainsPassport(doc_types[i])
        has_visa == AnyOf({"VISA_STAMP"}, doc_types)
        has_entry_record == AnyOf({"I94"}, doc_types)
        has_work_auth == AnyOf({"EAD", "GREEN_CARD"}, doc_types)
        missing_documents ==
            (IF has_labor_cert /\ ~has_petition
             THEN <<"I-129 petition or I-797 approval notice">> ELSE << >>)
            \o (IF has_petition /\ ~has_entry_record
                THEN <<"I-94 entry record">> ELSE << >>)
            \o (IF ~has_passport THEN <<"Passport">> ELSE << >>)
            \o (IF ~has_work_auth
                THEN <<"Work authorization (EAD or Green Card)">> ELSE << >>)
        present_count == CountTrue(<<has_petition, has_labor_cert, has_passport,
                                     has_visa, has_entry_record, has_work_auth>>)
    IN IF \E i \in 1..Len(doc_types) :
             /\ doc_types[i] = NoType
             /\ \A j \in 1..(i - 1) : ~ContainsPassport(doc_types[j])
       THEN SummaryResult(TRUE, << >>)
       ELSE SummaryResult(FALSE,
                [has_petition |-> has_petition, has_labor_cert |-> has_labor_cert,
                 has_passport |-> has_passport, has_visa |-> has_visa,
                 has_entry_record |-> has_entry_record,
                 has_work_auth |-> has_work_auth,
                 missing_documents |-> missing_documents,
                 completeness_score |-> <<present_count, total_expected>>])

Digit(n) == DigitChars[n + 1]

\* date.isoformat()
isoformat(d) ==
    LET year == d \div 10000
        month == (d \div 100) % 100
        day == d % 100
    IN <<Digit(year \div 1000), Digit((year \div 100) % 10),
         Digit((year \div 10) % 10), Digit(year % 10), "-",
         Digit(month \div 10), Digit(month % 10), "-",
         Digit(day \div 10), Digit(day % 10)>>

DateRange(earliest, latest) == [earliest |-> earliest, latest |-> latest]

\* Mutant: the dates are sorted in descending order.
RangeOf_Descending(all_dates) ==
    IF all_dates = {} THEN DateRange(Null, Null)
    ELSE DateRange(isoformat(CHOOSE d \in all_dates : \A e \in all_dates : e <= d),
                   isoformat(CHOOSE d \in all_dates : \A e \in all_dates : d <= e))

\* lines 898-905: the range of the dates collected
RangeOf(all_dates) ==
    IF all_dates = {} THEN DateRange(Null, Null)
    ELSE DateRange(isoformat(CHOOSE d \in all_dates : \A e \in all_dates : d <= e),
                   isoformat(CHOOSE d \in all_dates : \A e \in all_dates : e <= d))

\* Mutant: an entry without a parsed date gives no date.
EntryDate_ParsedOnly(entry) == entry.parsed_date

\* lines 892-896: the date of one timeline entry, NoDate when it has none
EntryDate(entry) ==
    IF entry.parsed_date # NoDate THEN entry.parsed_date
    ELSE parse_date_flexible(entry.date)

get_document_date_range(records) ==
    RangeOf({d \in UNION {{EntryDate(records[k].timeline[n]) :
                              n \in 1..Len(records[k].timeline)} :
                           k \in 1..Len(records)} : d # NoDate})

\* Mutant: total_pages counts the documents.
total_pages_CountsDocuments(documents) == Len(documents)

\* sum(len(doc['pages']) for doc in results['documents_processed'])
RECURSIVE total_pages(_)
total_pages(documents) ==
    IF documents = << >> THEN 0
    ELSE Len(Head(documents).pages) + total_pages(Tail(documents))

\* the dict of counts by document type (None is a key like any other)
document_types_found(documents) ==
    [t \in {documents[i].document_type : i \in 1..Len(documents)} |->
        Cardinality({i \in 1..Len(documents) : documents[i].document_type = t})]

\* Mutant: the list is assigned, not extended, for each person.
red_flags_Assigned(records) ==
    LET flagged == {k \in 1..Len(records) : records[k].inconsistencies # << >>}
    IN IF flagged = {} THEN << >>
       ELSE LET last == CHOOSE k \in flagged : \A j \in flagged : j <= k
            IN [n \in 1..Len(records[last].inconsistencies) |->
                   [person_key |-> records[last].key,
                    inconsistency |-> records[last].inconsistencies[n]]]

\* f"{person_key}: {inconsistency}" for every inconsistency of every person
RECURSIVE red_flags(_)
red_flags(records) ==
    IF records = << >> THEN << >>
    ELSE [n \in 1..Len(Head(records).inconsistencies) |->
             [person_key |-> Head(records).key,
              inconsistency |-> Head(records).inconsistencies[n]]]
         \o red_flags(Tail(records))

\* summary['completeness_check'], in the order of person_records; raised when
\* check_case_completeness raises for one of them
completeness_check(records) ==
    LET checks == [k \in 1..Len(records) |-> check_case_completeness(records[k])]
    IN IF \E k \in 1..Len(records) : checks[k].raised
       THEN SummaryResult(TRUE, << >>)
       ELSE SummaryResult(FALSE,
                [k \in 1..Len(records) |->
                    [person_key |-> records[k].key, completeness |-> checks[k].value]])

RECURSIVE MissingRecommendations(_)
MissingRecommendations(checks) ==
    IF checks = << >> THEN << >>
    ELSE (IF Head(checks).completeness.missing_documents # << >>
          THEN <<[person_key |-> Head(checks).person_key,
                  consider_obtaining |-> Head(checks).completeness.missing_documents]>>
          ELSE << >>)
         \o MissingRecommendations(Tail(checks))

generate_audit_recommendations(checks, flags) ==
    MissingRecommendations(checks)
    \o (IF flags # << >>
        THEN <<"Review flagged data inconsistencies before proceeding">>
        ELSE << >>)

Summary(pages, types, people, range, checks, flags, recommendations) ==
    [file_overview |-> [total_pages |-> pages, document_types_found |-> types,
                        people_identified |-> people, date_range |-> range],
     completeness_check |-> checks, red_flags |-> flags,
     recommendations |-> recommendations]

\* lines 855-882 once completeness_check is built
SummaryWith(documents, records, checks, flags) ==
    IF checks.raised THEN SummaryResult(TRUE, << >>)
    ELSE SummaryResult(FALSE,
            Summary(total_pages(documents), document_types_found(documents),
                    Len(records), get_document_date_range(records),
                    checks.value, flags,
                    generate_audit_recommendations(checks.value, flags)))

generate_audit_summary(documents, records) ==
    SummaryWith(documents, records, completeness_check(records), red_flags(records))

\* the summary of the except branch of process_multi_document_file
EmptySummary ==
    Summary(0, << >>, 0, DateRange(Null, Null), << >>, << >>, << >>)

-----------------------------------------------------------------------------
(* check_case_completeness applied to the documents of one person: up to   *)
(* MaxCaseDocuments types, listed in either order, the first listed twice   *)
(* or once                                                                 *)

\* the types a document of a person can have: those of the catalog,
\* UNKNOWN, and None
TypeInputs ==
    <<"I797", "I797C", "I129", "PERM", "PWD", "LCA", "I94", "EAD", "GREEN_CARD",
      "US_PASSPORT", "FOREIGN_PASSPORT", "VISA_STAMP", UNKNOWN, NoType>>

MaxCaseDocuments == 6

RECURSIVE TypesFrom(_, _)
TypesFrom(k, chosen) ==
    IF k > Len(TypeInputs) THEN << >>
    ELSE (IF k \in chosen THEN <<TypeInputs[k]>> ELSE << >>) \o TypesFrom(k + 1, chosen)

Reversed(s) == [i \in 1..Len(s) |-> s[Len(s) + 1 - i]]

\* the documents list of a person: one entry for each type listed
DocumentsOfTypes(types) ==
    [i \in 1..Len(types) |->
        DocumentEntry(SegmentResult(<<i - 1>>, types[i], 80, EmptyDict, << >>))]

\* the types listed, in either order, the first of them once more at the end
TypesListed(types, reversed, repeated) ==
    (IF reversed THEN Reversed(types) ELSE types)
    \o (IF repeated /\ types # << >> THEN <<types[1]>> ELSE << >>)

CaseDocuments(chosen, reversed, repeated) ==
    DocumentsOfTypes(TypesListed(TypesFrom(1, chosen), reversed, repeated))

CompletenessInit ==
    /\ \E chosen \in SUBSET DOMAIN TypeInputs :
          /\ Cardinality(chosen) <= MaxCaseDocuments
          /\ \E reversed \in BOOLEAN, repeated \in BOOLEAN :
                person_data = [documents |-> CaseDocuments(chosen, reversed, repeated)]
    /\ completeness = NotReturned
    /\ date_input = << >>
    /\ date_parsed = NotReturned
    /\ date_range = NotReturned
    /\ GrouperIdle
    /\ ConsolidatorIdle
    /\ PipelineIdle
    /\ ClassifierIdle

\* completeness = check_case_completeness(person_data)
CheckCompleteness ==
    /\ completeness = NotReturned
    /\ completeness' = <<check_case_completeness(person_data)>>
    /\ UNCHANGED <<person_data, date_input, date_parsed, date_range>>
    /\ UNCHANGED <<grouper_vars, consolidator_vars, pipeline_vars, classifier_vars>>

SpecCompleteness == CompletenessInit /\ [][CheckCompleteness]_vars

-----------------------------------------------------------------------------
(* get_document_date_range applied to the timelines of two people: up to   *)
(* MaxRangeEntries entries, each with or without a parsed date, and the     *)
(* timelines of test_get_document_date_range_handles_mixed_dates            *)

\* a timeline entry without the key 'parsed_date'
RawEntry(raw, document_type) == TimelineEntry(raw, NoDate, document_type)

EntryInputs ==
    <<TimelineEntry(<<"2", "0", "2", "4", "-", "0", "1", "-", "0", "1">>, MakeDate(2024, 1, 1), "A"),
      RawEntry(<<"i", "n", "v", "a", "l", "i", "d">>, "B"),
      RawEntry(Null, "C"),
      RawEntry(<<"0", "3", "/", "1", "5", "/", "2", "0", "2", "3">>, "D"),
      RawEntry(<<"1", "9", "D", "E", "C", "1", "9", "9", "4">>, "E")>>

MaxRangeEntries == 3

\* the person records 'p1' and 'p2' with the given timelines
RecordsWithTimelines(timeline1, timeline2) ==
    <<[NewPersonRecord(<<"p", "1">>, <<"p", "1">>, Null) EXCEPT !.timeline = timeline1],
      [NewPersonRecord(<<"p", "2">>, <<"p", "2">>, Null) EXCEPT !.timeline = timeline2]>>

\* the entries of one person among the entries chosen
RECURSIVE EntriesFor(_, _, _)
EntriesFor(person, entries, owners) ==
    IF entries = << >> THEN << >>
    ELSE (IF Head(owners) = person THEN <<EntryInputs[Head(entries)]>> ELSE << >>)
         \o EntriesFor(person, Tail(entries), Tail(owners))

MixedDates ==
    RecordsWithTimelines(
        <<EntryInputs[1], EntryInputs[2], EntryInputs[3]>>,
        <<EntryInputs[4], EntryInputs[5], RawEntry(Null, "F")>>)

DateRangeInit ==
    /\ \/ \E n \in 0..MaxRangeEntries :
            \E entries \in [1..n -> DOMAIN EntryInputs], owners \in [1..n -> 1..2] :
                person_records = RecordsWithTimelines(EntriesFor(1, entries, owners),
                                                      EntriesFor(2, entries, owners))
       \/ person_records = MixedDates
    /\ history = << >>
    /\ raised = FALSE
    /\ date_range = NotReturned
    /\ person_data = << >>
    /\ completeness = NotReturned
    /\ date_input = << >>
    /\ date_parsed = NotReturned
    /\ GrouperIdle
    /\ PipelineIdle
    /\ ClassifierIdle

\* date_range = get_document_date_range(results)
GetDateRange ==
    /\ date_range = NotReturned
    /\ date_range' = <<get_document_date_range(person_records)>>
    /\ UNCHANGED <<person_data, completeness, date_input, date_parsed>>
    /\ UNCHANGED <<grouper_vars, consolidator_vars, pipeline_vars, classifier_vars>>

SpecDateRange == DateRangeInit /\ [][GetDateRange]_vars

-----------------------------------------------------------------------------
(* process_document_segment and extract_with_llm.  The language model is   *)
(* external: what one call does is an outcome, it raises ("raises"), or    *)
(* its answer parses to a JSON object ("object") or to a JSON value that   *)
(* is not an object ("value").  The prompt, chosen from the segment's type *)
(* and text, acts on nothing but that answer.  validation_results is left  *)
(* out of the segment result: nothing reads it.                            *)

LlmOutcome(kind, data) == [kind |-> kind, data |-> data]

\* a parsed answer that is a JSON string: it has no get()
NotAnObject == <<"n", "/", "a">>

LlmOutcomes ==
    {LlmOutcome("raises", EmptyDict),
     LlmOutcome("object", ("beneficiary" :> AnnLee) @@ ("first_name" :> Ann)
                          @@ ("last_name" :> Lee) @@ ("notice_date" :> <<"2", "0", "2",
                              "4", "-", "0", "1", "-", "0", "1">>)),
     LlmOutcome("object", ("beneficiary" :> Bo) @@ ("first_name" :> Ann)
                          @@ ("last_name" :> Lee) @@ ("issue_date" :> <<"1", "9", "D",
                              "E", "C", "1", "9", "9", "4">>)),
     LlmOutcome("object", "given_name" :> Null),
     LlmOutcome("value", NotAnObject)}

\* lines 622-643: every exception of the call is turned into the error marker
extract_with_llm(outcome) ==
    IF outcome.kind = "raises" THEN ErrorMarker ELSE outcome.data

GenericNote == "Unknown document type - used generic extraction"

\* lines 508-541: the extract_* method the if/elif chain calls for a type
extraction_method(doc_type) ==
    CASE doc_type \in {"I797", "I797C"} -> "extract_uscis_form_data"
      [] doc_type = "I129" -> "extract_i129_data"
      [] doc_type \in {"PERM", "PWD"} -> "extract_dol_form_data"
      [] doc_type = "LCA" -> "extract_lca_data"
      [] doc_type = "I94" -> "extract_i94_data"
      [] doc_type = "EAD" -> "extract_ead_data"
      [] doc_type = "GREEN_CARD" -> "extract_green_card_data"
      [] doc_type \in {"US_PASSPORT", "FOREIGN_PASSPORT"} -> "extract_passport_data"
      [] doc_type = "VISA_STAMP" -> "extract_visa_data"
      [] OTHER -> "extract_generic_data"

\* Mutant: the note is added for the type UNKNOWN only.
ProcessingNotes_UnknownOnly(doc_type, outcome) ==
    IF doc_type = UNKNOWN THEN <<GenericNote>> ELSE << >>

\* lines 506-547: the else branch of the chain notes the generic extraction;
\* no extract_* method raises, so the except branch adds no note
ProcessingNotes(doc_type, outcome) ==
    IF extraction_method(doc_type) = "extract_generic_data"
    THEN <<GenericNote>> ELSE << >>

\* the types for which validate_segment_data calls data.get
ValidatedTypes ==
    {"I797", "I797C", "I129", "I94", "US_PASSPORT", "FOREIGN_PASSPORT", "EAD"}

\* lines 549-553: validate_segment_data raises AttributeError when the data
\* is not a mapping and the type is one it validates
ValidationRaises(doc_type, outcome, opts) ==
    /\ get_default(opts, "validate_fields", TRUE)
    /\ outcome.kind = "value"
    /\ doc_type \in ValidatedTypes

DispatchResult(exc, segment_result) == [raised |-> exc, segment_result |-> segment_result]

process_document_segment(segment, opts, outcome) ==
    DispatchResult(ValidationRaises(segment.doc_type, outcome, opts),
                   SegmentResult(segment.pages, segment.doc_type, segment.confidence,
                                 extract_with_llm(outcome),
                                 ProcessingNotes(segment.doc_type, outcome)))

-----------------------------------------------------------------------------
(* process_multi_document_file *)

\* the number of pages of the largest file processed
MaxFilePages == 2

\* what the first pass of analyze_pdf_by_pages can find on one page
FilePageInputs ==
    [text : {<<"x">>}, detected_types : DetectionInputs, is_continuation : BOOLEAN]

OptionsInputs == {EmptyDict, "validate_fields" :> FALSE}

\* f"Processing error: {str(e)}"
ProcessingError(exc_type) == <<"Processing error: ", exc_type>>

\* Mutant: only ValueError is caught.
Handled_ValueErrorOnly(exc_type) == exc_type = "ValueError"

\* except Exception (line 478): the exceptions the run raises are
\* AttributeError, TypeError and what fitz raises on a file it cannot open
Handled(exc_type) == exc_type \in {"AttributeError", "TypeError", "RuntimeError"}

\* an exception raised inside the try block (lines 460-476), handled by
\* lines 478-490
Raise(exc_type) ==
    /\ raised' = TRUE
    /\ IF Handled(exc_type)
       THEN /\ validation_errors' = Append(validation_errors, ProcessingError(exc_type))
            /\ processing_summary' = EmptySummary
            /\ pc' = "done"
       ELSE /\ pc' = "propagated"
            /\ UNCHANGED <<validation_errors, processing_summary>>

PipelineInit ==
    /\ GrouperIdle
    /\ ConsolidatorIdle
    /\ options \in OptionsInputs
    /\ pc = "start"
    /\ segments_found = 0
    /\ documents_processed = << >>
    /\ validation_errors = << >>
    /\ processing_summary = << >>
    /\ llm_failures = {}
    /\ ClassifierIdle
    /\ ValidatorIdle

\* lines 155-196: the second pass over the page analyses of the first
AnalyzeWith(analyses, g) ==
    /\ page_analyses' = analyses
    /\ page_idx' = Len(analyses)
    /\ segments' = FinalSegment(g, analyses)
    /\ current_segment_pages' = g.current_segment_pages
    /\ current_doc_type' = g.current_doc_type
    /\ current_confidence' = g.current_confidence
    /\ grouped' = TRUE
    /\ segments_found' = Len(FinalSegment(g, analyses))

\* lines 462-463: analyze_pdf_by_pages returns the segments of a file of up
\* to max_pages pages, each page one of page_inputs
AnalyzeFile(page_inputs, max_pages) ==
    /\ pc = "start"
    /\ \E n \in 0..max_pages : \E f \in [1..n -> page_inputs] :
        AnalyzeWith(NumberPages(f), GroupLoop(GroupInit, 1, NumberPages(f)))
    /\ pc' = "segments"
    /\ UNCHANGED <<classifier_vars, validator_vars, consolidator_vars, options,
                   documents_processed, validation_errors,
                   processing_summary, llm_failures>>

Analyze == AnalyzeFile(FilePageInputs, MaxFilePages)

\* line 462: the file cannot be opened or a page cannot be read
AnalyzeFails ==
    /\ pc = "start"
    /\ Raise("RuntimeError")
    /\ UNCHANGED <<classifier_vars, validator_vars, grouper_vars, person_records,
                   history, options, segments_found,
                   documents_processed, llm_failures>>

\* Mutant: the segment result is put in front of documents_processed.
AppendResult_InFront(i, outcome, segment_result) ==
    /\ documents_processed' = <<segment_result>> \o documents_processed
    /\ llm_failures' = IF outcome.kind = "raises"
                       THEN llm_failures \cup {i} ELSE llm_failures
    /\ history' = Append(history, segment_result)

\* line 470: the segment result joins documents_processed
AppendResult(i, outcome, segment_result) ==
    /\ documents_processed' = Append(documents_processed, segment_result)
    /\ llm_failures' = IF outcome.kind = "raises"
                       THEN llm_failures \cup {i} ELSE llm_failures
    /\ history' = Append(history, segment_result)

\* line 473: consolidate_person_data raised or updated person_records
AfterConsolidation(consolidated) ==
    /\ person_records' = consolidated.person_records
    /\ IF consolidated.raised THEN Raise("AttributeError")
       ELSE UNCHANGED <<raised, pc, validation_errors, processing_summary>>

\* lines 469-473 for the result of process_document_segment
AfterDispatch(i, outcome, dispatched) ==
    IF dispatched.raised
    THEN /\ Raise("AttributeError")
         /\ UNCHANGED <<documents_processed, llm_failures, history, person_records>>
    ELSE /\ AppendResult(i, outcome, dispatched.segment_result)
         /\ AfterConsolidation(
                IF outcome.kind = "value" THEN ConsolidateResult(TRUE, person_records)
                ELSE consolidate_person_data(dispatched.segment_result, person_records))

\* lines 468-473: one iteration of the loop over the segments, the LLM call
\* having one of the outcomes
ProcessSegmentWith(outcomes) ==
    /\ pc = "segments"
    /\ Len(documents_processed) < Len(segments)
    /\ \E outcome \in outcomes :
        AfterDispatch(Len(documents_processed) + 1, outcome,
                      process_document_segment(segments[Len(documents_processed) + 1],
                                               options, outcome))
    /\ UNCHANGED <<classifier_vars, validator_vars, grouper_vars, options,
                   segments_found>>

ProcessSegment == ProcessSegmentWith(LlmOutcomes)

\* lines 476-490 for the result of generate_audit_summary
AfterSummary(summary) ==
    IF summary.raised THEN Raise("TypeError")
    ELSE /\ processing_summary' = summary.value
         /\ pc' = "done"
         /\ UNCHANGED <<raised, validation_errors>>

\* line 476: generate_audit_summary after the last segment
Summarize ==
    /\ pc = "segments"
    /\ Len(documents_processed) = Len(segments)
    /\ AfterSummary(generate_audit_summary(documents_processed, person_records))
    /\ UNCHANGED <<classifier_vars, validator_vars, grouper_vars, person_records,
                   history, options, segments_found,
                   documents_processed, llm_failures>>

Next ==
    \/ Analyze
    \/ AnalyzeFails
    \/ ProcessSegment
    \/ Summarize

Spec == PipelineInit /\ [][Next]_vars

-----------------------------------------------------------------------------
(* A file processed end to end from the text of its pages: a notice of     *)
(* action for John Doe and an entry record for Jane Smith, each as a short  *)
(* page and as a page of more than ShortPage characters                     *)

NoticePage ==
    <<"N", "O", "T", "I", "C", "E", " ", "O", "F", " ", "A", "C", "T", "I", "O", "N", "\n", "R", "e", "c", "e", "i", "p", "t", " ", "N", "u", "m", "b", "e", "r", " ", "W", "A", "C", "1", "2", "3", "4", "5", "6", "7", "8", "9", "0", "\n", "B", "e", "n", "e", "f", "i", "c", "i", "a", "r", "y", ":", " ", "J", "o", "h", "n", " ", "D", "o", "e">>

EntryPage ==
    <<"I", "-", "9", "4", " ", "A", "r", "r", "i", "v", "a", "l", "/", "D", "e", "p", "a", "r", "t", "u", "r", "e", " ", "R", "e", "c", "o", "r", "d", "\n", "N", "a", "m", "e", ":", " ", "J", "a", "n", "e", " ", "S", "m", "i", "t", "h", "\n", "I", "-", "9", "4", " ", "N", "u", "m", "b", "e", "r", ":", " ", "1", "2", "3", "4", "5", "6", "7", "8", "9", "0", "1">>

NoticePages == {NoticePage, NoticePage \o <<"\n">> \o Filler}

EntryPages ==
    {EntryPage,
     EntryPage \o <<"\n">> \o Filler,
     <<"F", "o", "r", "m", " ">>\o EntryPage \o <<"\n">> \o Filler}

\* lines 165-182: the analysis of one page in the first pass
first_pass(text) ==
    [text |-> text,
     detected_types |-> detect_document_types_on_page(text, FALSE).detected_types,
     is_continuation |-> is_continuation_page(text)]

EndToEndPageInputs == {first_pass(text) : text \in NoticePages \cup EntryPages}

MaxEndToEndPages == 2

JaneSmith == <<"J", "a", "n", "e", " ", "S", "m", "i", "t", "h">>

\* what the field extraction answers: the fields of the notice, the
\* fields of the entry record, or no field
NoticeFields ==
    ("receipt_number" :> <<"W", "A", "C", "1", "2", "3", "4", "5", "6", "7", "8", "9", "0">>) @@ ("beneficiary" :> JohnDoe)

EntryFields == ("first_name" :> <<"J", "a", "n", "e">>) @@ ("last_name" :> <<"S", "m", "i", "t", "h">>)

EndToEndOutcomes ==
    {LlmOutcome("object", NoticeFields),
     LlmOutcome("object", EntryFields),
     LlmOutcome("object", EmptyDict)}

AnalyzeEndToEnd == AnalyzeFile(EndToEndPageInputs, MaxEndToEndPages)

ProcessEndToEnd == ProcessSegmentWith(EndToEndOutcomes)

EndToEndNext ==
    \/ AnalyzeEndToEnd
    \/ ProcessEndToEnd
    \/ Summarize

SpecEndToEnd == PipelineInit /\ [][EndToEndNext]_vars

-----------------------------------------------------------------------------
(* A file of one-page documents of two people whose documents disagree on   *)
(* name, date of birth or country, and of a third whose documents agree     *)

\* a page the first pass finds to start a document
FlaggedPageInputs == {PageAnalysis(0, <<"x">>, <<Detection("I94", 80)>>, FALSE)}

MaxFlaggedPages == 5

\* the answers of the extraction: John Doe under two spellings and two
\* countries, two people sharing one key, and Ann Lee
FlaggedOutcomes ==
    {LlmOutcome("object", e.extracted_data) :
        e \in {JohnDoeI94(("full_name" :> JohnDoe) @@ ("date_of_birth" :> Dob1)
                          @@ ("country_of_citizenship" :> <<"I", "N">>)),
               JohnDoeI94(("full_name" :> JonDoe) @@ ("date_of_birth" :> Dob1)
                          @@ ("country_of_birth" :> <<"U", "K">>))}
              \cup SameKeyInputs}
    \cup {LlmOutcome("object", "beneficiary" :> AnnLee)}

AnalyzeFlagged == AnalyzeFile(FlaggedPageInputs, MaxFlaggedPages)

ProcessFlagged == ProcessSegmentWith(FlaggedOutcomes)

FlaggedNext ==
    \/ AnalyzeFlagged
    \/ ProcessFlagged
    \/ Summarize

SpecRedFlags == PipelineInit /\ [][FlaggedNext]_vars

-----------------------------------------------------------------------------
(* A one-page file of every type: the page starts a document of one of the  *)
(* catalog types, is found to hold no type, or is a continuation page       *)

\* one detection of every type, with the confidence lines 223-346 give it
TypeDetections ==
    {Detection("I797", 90), Detection("I797C", 85), Detection("I129", 85),
     Detection("PERM", 90), Detection("PWD", 85), Detection("LCA", 90),
     Detection("I94", 80), Detection("EAD", 85), Detection("GREEN_CARD", 90),
     Detection("US_PASSPORT", 80), Detection("FOREIGN_PASSPORT", 70),
     Detection("VISA_STAMP", 80)}

DispatchPageInputs ==
    {PageAnalysis(0, <<"x">>, <<d>>, c) : d \in TypeDetections, c \in BOOLEAN}
    \cup {PageAnalysis(0, <<"x">>, << >>, FALSE)}

MaxDispatchPages == 1

AnalyzeDispatch == AnalyzeFile(DispatchPageInputs, MaxDispatchPages)

DispatchNext ==
    \/ AnalyzeDispatch
    \/ ProcessSegment
    \/ Summarize

SpecDispatch == PipelineInit /\ [][DispatchNext]_vars

-----------------------------------------------------------------------------
(* parse_date_flexible applied to one date text: the dates of the tests, in *)
(* the formats tried and in none, bare and padded with spaces               *)

DateTexts ==
    {<<"2", "0", "2", "4", "-", "0", "1", "-", "0", "1">>, <<"1", "9", "D", "E", "C", "1", "9", "9", "4">>, InvalidDate, << >>, <<"n", "u", "l", "l">>, <<"n", "/", "a">>, <<"N", "U", "L", "L">>, <<"N", "/", "A">>,
     <<"0", "3", "/", "1", "5", "/", "2", "0", "2", "3">>, <<"9", "d", "e", "c", "1", "9", "9", "4">>, <<"2", "0", "2", "4", "-", "0", "2", "-", "3", "0">>, <<"I", "s", "s", "u", "e", "d", " ", "2", "0", "2", "2", "-", "0", "7", "-", "0", "4">>, <<"1", "2", "/", "3", "1", "/", "9", "9">>,
     <<"3", "1", "/", "1", "2", "/", "2", "0", "2", "3">>, <<"D", "e", "c", "e", "m", "b", "e", "r", " ", "1", "9", " ", "1", "9", "9", "4">>, <<"1", "9", " ", "D", "e", "c", " ", "1", "9", "9", "4">>, <<"1", "9", "9", "4", "-", "1", "2", "-", "1", "9">>,
     <<"0", "1", "-", "0", "2", "-", "2", "0", "2", "3">>, <<"2", "0", "2", "3", "/", "0", "1", "/", "0", "2">>}

\* the number of spaces before and after the text
MaxPadding == 1

Spaces(n) == [i \in 1..n |-> " "]

\* a date field of an extraction: null or a string
DateInputs ==
    {Null} \cup {Spaces(a) \o text \o Spaces(b) :
                    text \in DateTexts, a \in 0..MaxPadding, b \in 0..MaxPadding}

ParseDateInit ==
    /\ GrouperIdle
    /\ ConsolidatorIdle
    /\ PipelineIdle
    /\ ClassifierIdle
    /\ person_data = << >>
    /\ completeness = NotReturned
    /\ date_input \in DateInputs
    /\ date_parsed = NotReturned
    /\ date_range = NotReturned

\* one call parse_date_flexible(date_str)
ParseDate ==
    /\ date_parsed = NotReturned
    /\ date_parsed' = <<parse_date_flexible(date_input)>>
    /\ UNCHANGED <<grouper_vars, consolidator_vars, pipeline_vars, classifier_vars,
                   person_data, completeness, date_input, date_range>>

SpecParseDate == ParseDateInit /\ [][ParseDate]_vars

-----------------------------------------------------------------------------
(* The segment grouper applied to the first pass over a file of notices:   *)
(* pages that are receipt notices, notices of action with and without a     *)
(* receipt number, a page with a header and no indicator, a short page      *)
(* naming USCIS and a page of plain text                                    *)

ReceiptNotice == <<"R", "e", "c", "e", "i", "p", "t", " ", "N", "o", "t", "i", "c", "e", "\n">>

NoticeFileTexts ==
    {ReceiptNotice \o Filler,
     <<"N", "o", "t", "i", "c", "e", " ", "o", "f", " ", "A", "c", "t", "i", "o", "n", "\n">> \o ReceiptNotice \o Filler,
     <<"N", "o", "t", "i", "c", "e", " ", "o", "f", " ", "A", "c", "t", "i", "o", "n", "\n", "R", "e", "c", "e", "i", "p", "t", " ", "N", "u", "m", "b", "e", "r", " ", "A", "B", "C", "1", "2", "3", "4", "5", "6", "7", "8", "9", "0", "\n">> \o Filler,
     <<"F", "o", "r", "m", " ">> \o Filler,
     <<"U", "S", "C", "I", "S", " ", "N", "u", "m", "b", "e", "r", " ", "A", "B", "C", "1", "2", "3", "4", "5", "6", "\n">>,
     Filler}

NoticeFilePageInputs == {first_pass(text) : text \in NoticeFileTexts}

MaxNoticeFilePages == 3

NoticeFileInit ==
    /\ \E n \in 0..MaxNoticeFilePages : \E f \in [1..n -> NoticeFilePageInputs] :
        page_analyses = NumberPages(f)
    /\ page_idx = 0
    /\ segments = GroupInit.segments
    /\ current_segment_pages = GroupInit.current_segment_pages
    /\ current_doc_type = GroupInit.current_doc_type
    /\ current_confidence = GroupInit.current_confidence
    /\ grouped = FALSE
    /\ ConsolidatorIdle
    /\ PipelineIdle
    /\ ClassifierIdle
    /\ ValidatorIdle

SpecNoticeFile == NoticeFileInit /\ [][GrouperNext]_vars

-----------------------------------------------------------------------------
(* Properties of the segment grouper (checked under SpecGrouper) *)

RECURSIVE PagesOf(_)
PagesOf(segs) ==
    IF segs = << >> THEN << >> ELSE Head(segs).pages \o PagesOf(Tail(segs))

PageNumbers(n) == [i \in 1..n |-> i - 1]

\* The state machine and the function it unfolds agree on the result.
GrouperAgreesWithFunction ==
    grouped => segments = group_pages_into_documents(page_analyses)

\* C1: the returned segments partition the input pages: their page lists,
\* concatenated in segment order, are exactly 0, 1, ..., n-1 (every page once,
\* in page order, contiguous inside a segment), no segment is empty, and so
\* zero pages give zero segments. While the loop runs, the emitted segments
\* followed by the open segment hold exactly the pages consumed so far.
C1_SegmentsPartitionPages ==
    /\ \A k \in 1..Len(segments) : segments[k].pages # << >>
    /\ PagesOf(segments) \o (IF grouped THEN << >> ELSE current_segment_pages)
           = PageNumbers(page_idx)
    /\ grouped => PagesOf(segments) = PageNumbers(Len(page_analyses))

\* C1 witness: a finished run over three pages with a two-page segment and a
\* one-page segment.
C1_Witness ==
    /\ grouped
    /\ Len(page_analyses) = 3
    /\ Len(segments) = 2
    /\ \E k \in 1..2 : Len(segments[k].pages) = 2

SegmentStartingAt(p) ==
    {k \in 1..Len(segments) : segments[k].pages[1] = p}

\* C2: when the grouper has returned, every page with detections that is not a
\* continuation is the first page of exactly one segment, that segment's type
\* and confidence are the page's first-ranked detection, and every further
\* page of the segment is a continuation page (which changed neither type nor
\* confidence); while the loop runs the open segment started by such a page
\* carries that page's first-ranked detection. Pages [detected A]
\* [continuation][detected B] give exactly the segments {A: 0,1} and {B: 2}.
C2_DetectedPageStartsSegment ==
    /\ grouped =>
        \A i \in 1..Len(page_analyses) :
            IsNewDocumentPage(page_analyses[i]) =>
                /\ Cardinality(SegmentStartingAt(i - 1)) = 1
                /\ \A k \in SegmentStartingAt(i - 1) :
                    /\ segments[k].doc_type = page_analyses[i].detected_types[1].type
                    /\ segments[k].confidence =
                           page_analyses[i].detected_types[1].confidence
                    /\ \A j \in 2..Len(segments[k].pages) :
                           page_analyses[segments[k].pages[j] + 1].is_continuation
    /\ (~grouped /\ current_segment_pages # << >>
        /\ IsNewDocumentPage(page_analyses[current_segment_pages[1] + 1])) =>
            /\ current_doc_type =
                   page_analyses[current_segment_pages[1] + 1].detected_types[1].type
            /\ current_confidence =
                   page_analyses[current_segment_pages[1] + 1].detected_types[1].confidence
    /\ (grouped /\ Len(page_analyses) = 3
        /\ IsNewDocumentPage(page_analyses[1])
        /\ page_analyses[2].is_continuation
        /\ IsNewDocumentPage(page_analyses[3])) =>
            /\ Len(segments) = 2
            /\ segments[1].pages = <<0, 1>>
            /\ segments[1].doc_type = page_analyses[1].detected_types[1].type
            /\ segments[2].pages = <<2>>
            /\ segments[2].doc_type = page_analyses[3].detected_types[1].type

\* C2 witness: [detected I797][continuation that itself detects I94]
\* [detected LCA] has been grouped into {I797: 0,1} and {LCA: 2}.
C2_Witness ==
    /\ grouped
    /\ Len(page_analyses) = 3
    /\ IsNewDocumentPage(page_analyses[1])
    /\ page_analyses[1].detected_types[1].type = "I797"
    /\ page_analyses[2].is_continuation
    /\ page_analyses[2].detected_types = <<Detection("I94", 80)>>
    /\ IsNewDocumentPage(page_analyses[3])
    /\ page_analyses[3].detected_types[1].type = "LCA"
    /\ Len(segments) = 2
    /\ segments[1].doc_type = "I797" /\ segments[1].confidence = 95
    /\ segments[2].doc_type = "LCA"

\* C3: every page consumed so far that has no detections and is not a
\* continuation is a segment of its own, of type UNKNOWN and confidence 0.3,
\* placed after every segment that holds earlier pages; the open segment never
\* holds such a page; and every UNKNOWN segment is one such page alone.
C3_UnknownPageStandsAlone ==
    /\ \A i \in 1..page_idx :
        IsUnknownPage(page_analyses[i]) =>
            /\ \E k \in 1..Len(segments) :
                /\ segments[k].pages = <<i - 1>>
                /\ segments[k].doc_type = UNKNOWN
                /\ segments[k].confidence = UnknownConfidence
                /\ \A j \in 1..(k - 1) :
                       \A q \in 1..Len(segments[j].pages) :
                           segments[j].pages[q] < i - 1
                /\ PagesOf(SubSeq(segments, 1, k - 1)) = PageNumbers(i - 1)
            /\ \A q \in 1..Len(current_segment_pages) :
                   current_segment_pages[q] # i - 1
    /\ \A k \in 1..Len(segments) :
        segments[k].doc_type = UNKNOWN =>
            /\ Len(segments[k].pages) = 1
            /\ IsUnknownPage(page_analyses[segments[k].pages[1] + 1])

\* C3 witness: two consecutive undetected non-continuation pages after a
\* detected page have been emitted as two separate UNKNOWN segments.
C3_Witness ==
    /\ grouped
    /\ Len(page_analyses) = 3
    /\ IsNewDocumentPage(page_analyses[1])
    /\ IsUnknownPage(page_analyses[2])
    /\ IsUnknownPage(page_analyses[3])
    /\ Len(segments) = 3
    /\ segments[2].doc_type = UNKNOWN /\ segments[2].pages = <<1>>
    /\ segments[3].doc_type = UNKNOWN /\ segments[3].pages = <<2>>

\* C4: every emitted segment has a doc_type that is a catalog type or UNKNOWN
\* and a confidence in [0, 1].
C4_SegmentTypeInCatalog ==
    \A k \in 1..Len(segments) :
        /\ segments[k].doc_type \in CatalogTypes \cup {UNKNOWN}
        /\ segments[k].confidence \in 0..100

\* C26: the type and confidence of every emitted segment come from a page
\* of the segment: a segment whose type is not UNKNOWN starts with a page
\* that has detections and is not a continuation, and its type and
\* confidence are that page's first-ranked detection; so continuation pages
\* that follow an UNKNOWN page, or that open the file, never carry the type
\* or confidence of an earlier, already emitted segment.
C26_SegmentTypeFromOwnPage ==
    \A k \in 1..Len(segments) :
        segments[k].doc_type # UNKNOWN =>
            LET opening == page_analyses[segments[k].pages[1] + 1]
            IN /\ IsNewDocumentPage(opening)
               /\ segments[k].doc_type = opening.detected_types[1].type
               /\ segments[k].confidence = opening.detected_types[1].confidence

-----------------------------------------------------------------------------
(* Properties of consolidate_person_data (checked under SpecIdentity) *)

\* The consolidated segments that did not raise
Completed == {i \in 1..Len(history) : ~(raised /\ i = Len(history))}

ResolvedName(i) ==
    ResolveName(history[i].document_type, history[i].extracted_data).name

ResolvedDob(i) ==
    IF Truthy(ResolveDob(history[i].extracted_data))
    THEN ResolveDob(history[i].extracted_data) ELSE Null

\* The consolidated segments that resolved to a name
Resolved == {i \in Completed : Truthy(ResolvedName(i))}

\* The positions of segment i's document entry in record k
EntriesOf(i, k) ==
    {n \in 1..Len(person_records[k].documents) :
        person_records[k].documents[n].pages = history[i].pages}

\* The records that hold a document entry of segment i
Holders(i) == {k \in 1..Len(person_records) : EntriesOf(i, k) # {}}

\* C5: any two consolidated segments that resolve to the same name and the
\* same date of birth sit in one and the same PersonRecord, whatever was
\* consolidated between them; every resolved segment has exactly one document
\* entry, in exactly one record; a record holds exactly the entries of the
\* segments consolidated into it; no two records carry the same name and date
\* of birth; and, since every resolved segment ever consolidated still has its
\* entry, no record was removed.
C5_SamePersonOneRecord ==
    /\ \A i \in Resolved :
        /\ Cardinality(Holders(i)) = 1
        /\ \A k \in Holders(i) : Cardinality(EntriesOf(i, k)) = 1
    /\ \A i, j \in Resolved :
        (ResolvedName(i) = ResolvedName(j) /\ ResolvedDob(i) = ResolvedDob(j))
            => Holders(i) = Holders(j)
    /\ \A k \in 1..Len(person_records) :
        Len(person_records[k].documents) =
            Cardinality({i \in Resolved : k \in Holders(i)})
    /\ \A k, m \in 1..Len(person_records) :
        (person_records[k].name = person_records[m].name
         /\ Truthy(person_records[k].date_of_birth)
                = Truthy(person_records[m].date_of_birth)
         /\ (Truthy(person_records[k].date_of_birth)
                => person_records[k].date_of_birth = person_records[m].date_of_birth))
            => k = m

\* C5 witness: "Ann Lee" born Dob1 was consolidated from an I-797 (beneficiary,
\* date_of_birth), then "Bo", then "Ann Lee" born Dob1 again from an EAD
\* (full_name, birth_date): two records, the first with two documents.
C5_Witness ==
    /\ Len(history) = 3
    /\ history[1].document_type = "I797"
    /\ history[3].document_type = "EAD"
    /\ {1, 2, 3} \subseteq Resolved
    /\ ResolvedName(1) = AnnLee /\ ResolvedDob(1) = Dob1
    /\ ResolvedName(2) = Bo
    /\ ResolvedName(3) = AnnLee /\ ResolvedDob(3) = Dob1
    /\ Len(person_records) = 2
    /\ Len(person_records[1].documents) = 2
    /\ Len(person_records[2].documents) = 1

\* The name-bearing fields consolidate_person_data reads
NameFields ==
    {"beneficiary", "full_name", "holder_name", "first_name", "last_name",
     "given_name", "surname", "family_name", "first_given_name", "lastsurname",
     "given_name_first_name", "family_name_last_name"}

\* every name-bearing field is absent, null or empty
NoNameFields(extracted_data) ==
    \A f \in NameFields : get(extracted_data, f) \in {Null, << >>}

\* C6: a segment whose name-bearing fields are all absent, null or empty
\* leaves person_records as it was: no record holds a document entry of it
\* (so none was created for it and none gained a document, timeline entry or
\* inconsistency from it), and its consolidation raised nothing.
C6_NamelessSegmentLeavesRecords ==
    \A i \in 1..Len(history) :
        NoNameFields(history[i].extracted_data) =>
            /\ i \in Completed
            /\ Holders(i) = {}

\* C27: consolidate_person_data completes without raising for every document
\* type and every mapping of extracted fields to strings or null, a name
\* field present with a null value included, so no call leaves the segments
\* after it unconsolidated.
C27_ConsolidationNeverRaises ==
    /\ ~raised
    /\ \A i \in 1..Len(history) : i \in Completed

-----------------------------------------------------------------------------
(* Properties of the timeline (checked under SpecTimeline) *)

\* the document date of consolidated segment i, NoDate when it has none or it
\* does not parse
ParsedDocDate(i) == parse_date_flexible(DocDateRaw(history[i].extracted_data))

\* the parsed document dates of the consolidated segments, in their order
ParsedDocDates == [i \in 1..Len(history) |-> ParsedDocDate(i)]

\* C7: after any sequence of consolidations every record's timeline is in
\* ascending order of parsed date, every timeline entry carries a parsed
\* date, the timeline holds one entry per segment of the record whose date
\* parses (each the raw date, parsed date and type of such a segment), so a
\* segment whose date does not parse adds none, while every segment has its
\* document entry in the record.
C7_TimelineSortedAndParsed ==
    LET parsed == ParsedDocDates
    IN /\ \A i \in 1..Len(history) : Cardinality(Holders(i)) = 1
       /\ \A k \in 1..Len(person_records) :
            LET timeline == person_records[k].timeline
                held == {i \in Resolved : k \in Holders(i)}
                dated == {i \in held : parsed[i] # NoDate}
            IN /\ \A n, q \in 1..Len(timeline) :
                    n < q => timeline[n].parsed_date <= timeline[q].parsed_date
               /\ \A n \in 1..Len(timeline) : timeline[n].parsed_date # NoDate
               /\ Len(timeline) = Cardinality(dated)
               /\ \A n \in 1..Len(timeline) :
                    \E i \in dated :
                        /\ timeline[n].date = DocDateRaw(history[i].extracted_data)
                        /\ timeline[n].parsed_date = parsed[i]
                        /\ timeline[n].document = history[i].document_type
               /\ Len(person_records[k].documents) = Cardinality(held)

\* C7 witness: one person's segments dated 2024-01-01, "invalid-date" and
\* 19DEC1994 were consolidated in that order: three documents, and a timeline
\* of two entries with 1994 ahead of 2024.
C7_Witness ==
    /\ Len(history) = 3
    /\ ParsedDocDate(1) = MakeDate(2024, 1, 1)
    /\ DocDateRaw(history[2].extracted_data) = InvalidDate
    /\ ParsedDocDate(3) = MakeDate(1994, 12, 19)
    /\ Len(person_records) = 1
    /\ Len(person_records[1].documents) = 3
    /\ Len(person_records[1].timeline) = 2
    /\ person_records[1].timeline[1].parsed_date = MakeDate(1994, 12, 19)
    /\ person_records[1].timeline[2].parsed_date = MakeDate(2024, 1, 1)

-----------------------------------------------------------------------------
(* Properties of the consistency check (checked under SpecConsistency) *)

\* the categories: the label of a category's entry and its fields, in the
\* order the check reads them
Categories ==
    {[label |-> "Name variations",
      fields |-> <<"beneficiary", "full_name", "holder_name">>],
     [label |-> "DOB variations", fields |-> <<"date_of_birth", "birth_date">>],
     [label |-> "Country variations",
      fields |-> <<"country_of_citizenship", "country_of_birth", "nationality">>]}

\* every non-empty value the documents hold in the fields
HeldValues(documents, fields) ==
    {v \in {get(documents[j].data, fields[f]) :
                j \in 1..Len(documents), f \in 1..Len(fields)} : Truthy(v)}

\* the first non-empty value of a document among the fields, Null if none
RECURSIVE FirstNonEmpty(_, _)
FirstNonEmpty(data, fields) ==
    IF fields = << >> THEN Null
    ELSE IF Truthy(get(data, Head(fields))) THEN get(data, Head(fields))
    ELSE FirstNonEmpty(data, Tail(fields))

\* the documents' first non-empty values among the fields
FirstValues(documents, fields) ==
    {v \in {FirstNonEmpty(documents[j].data, fields) : j \in 1..Len(documents)} :
        Truthy(v)}

EntriesLabelled(person_record, label) ==
    {n \in 1..Len(person_record.inconsistencies) :
        person_record.inconsistencies[n].label = label}

\* C8 as stated: for a person with at least two documents, a category has
\* exactly one inconsistency entry iff the documents hold more than one
\* distinct non-empty value in the category's fields (otherwise none), and
\* the entry lists every such value.
C8_EntryIffFieldsDiffer ==
    \A k \in 1..Len(person_records) : \A c \in Categories :
        LET person_record == person_records[k]
            held == HeldValues(person_record.documents, c.fields)
            entries == EntriesLabelled(person_record, c.label)
        IN Len(person_record.documents) >= 2 =>
            /\ Cardinality(entries) = (IF Cardinality(held) > 1 THEN 1 ELSE 0)
            /\ \A n \in entries : person_record.inconsistencies[n].values = held

\* C8 amended: for a person with at least two documents, a category has
\* exactly one inconsistency entry iff the documents' first non-empty values
\* among the category's fields (read in the order beneficiary, full_name,
\* holder_name; date_of_birth, birth_date; country_of_citizenship,
\* country_of_birth, nationality) are more than one distinct value (otherwise
\* none), and the entry lists every one of those values.
C8_EntryIffFirstValuesDiffer ==
    \A k \in 1..Len(person_records) : \A c \in Categories :
        LET person_record == person_records[k]
            reported == FirstValues(person_record.documents, c.fields)
            entries == EntriesLabelled(person_record, c.label)
        IN Len(person_record.documents) >= 2 =>
            /\ Cardinality(entries) = (IF Cardinality(reported) > 1 THEN 1 ELSE 0)
            /\ \A n \in entries : person_record.inconsistencies[n].values = reported

\* C8 witness: one person has two documents with the same date of birth, one
\* naming "John Doe" and one "Jon Doe": the inconsistencies are exactly one
\* "Name variations" entry listing both names.
C8_Witness ==
    /\ Len(person_records) = 1
    /\ Len(person_records[1].documents) = 2
    /\ FirstValues(person_records[1].documents, <<"beneficiary", "full_name", "holder_name">>)
        = {JohnDoe, JonDoe}
    /\ FirstValues(person_records[1].documents, <<"date_of_birth", "birth_date">>) = {Dob1}
    /\ person_records[1].inconsistencies
        = <<Variation("Name variations", {JohnDoe, JonDoe})>>

\* the place of a category's label in the order the check appends them
LabelRank(label) ==
    CASE label = "Name variations" -> 1
      [] label = "DOB variations" -> 2
      [] label = "Country variations" -> 3
      [] OTHER -> 0

\* C23: after any sequence of consolidations, the inconsistencies of every
\* person are what the check computes from the person's current documents:
\* empty for a person with fewer than two documents, and otherwise at most
\* one entry per category, in the order Name, DOB, Country, with no entry
\* left over or repeated from an earlier check.
C23_InconsistenciesRecomputed ==
    \A k \in 1..Len(person_records) :
        LET person_record == person_records[k]
            found == person_record.inconsistencies
        IN /\ Len(person_record.documents) < 2 => found = << >>
           /\ Len(person_record.documents) >= 2 =>
                  found = Inconsistencies(person_record.documents)
           /\ \A a, b \in 1..Len(found) :
                  a < b => 0 < LabelRank(found[a].label)
                           /\ LabelRank(found[a].label) < LabelRank(found[b].label)

\* C23 witness: a person with three documents whose first two already gave
\* an entry, and whose three give other entries than the first two: the
\* list is the one of the three documents.
C23_Witness ==
    \E k \in 1..Len(person_records) :
        LET person_record == person_records[k]
            documents == person_record.documents
        IN /\ Len(documents) = 3
           /\ Inconsistencies(SubSeq(documents, 1, 2)) # << >>
           /\ Inconsistencies(SubSeq(documents, 1, 2)) # Inconsistencies(documents)
           /\ Len(person_record.inconsistencies) = 2
           /\ person_record.inconsistencies = Inconsistencies(documents)

\* the date of birth a record carries, null when it carries none
RecordDob(k) ==
    IF Truthy(person_records[k].date_of_birth)
    THEN person_records[k].date_of_birth ELSE Null

\* C28: after any sequence of consolidations, every document of a
\* PersonRecord came from a segment whose resolved name and date of birth
\* are the record's name and date_of_birth, and two segments that resolve to
\* different (name, date of birth) pairs, the same name with another or with
\* no date of birth included, are in no record together, whatever characters
\* ('_' included) the names and dates are made of.
C28_RecordHoldsOnePerson ==
    /\ \A i \in Resolved : \A k \in Holders(i) :
          /\ person_records[k].name = ResolvedName(i)
          /\ RecordDob(k) = ResolvedDob(i)
    /\ \A i, j \in Resolved :
          (ResolvedName(i) # ResolvedName(j) \/ ResolvedDob(i) # ResolvedDob(j))
              => Holders(i) \cap Holders(j) = {}

-----------------------------------------------------------------------------
(* Properties of process_multi_document_file (checked under Spec) *)

\* C9: process_multi_document_file never lets a failure out: once a failure
\* was raised (in segmentation, dispatch, consolidation or summary building)
\* the call has returned, validation_errors holds exactly one entry and the
\* summary is the empty one (total_pages 0, no document types,
\* people_identified 0, date range null/null, empty completeness_check,
\* red_flags and recommendations); the result still carries segments_found,
\* the segment results dispatched before the failure and the person records
\* built from them; without a failure validation_errors stays empty.
C9_FailureCaughtOnce ==
    /\ pc # "propagated"
    /\ Len(documents_processed) <= segments_found
    /\ Len(person_records) <= Len(documents_processed)
    /\ ~raised => validation_errors = << >>
    /\ raised =>
        /\ pc = "done"
        /\ Len(validation_errors) = 1
        /\ processing_summary.file_overview.total_pages = 0
        /\ DOMAIN processing_summary.file_overview.document_types_found = {}
        /\ processing_summary.file_overview.people_identified = 0
        /\ processing_summary.file_overview.date_range
            = [earliest |-> Null, latest |-> Null]
        /\ processing_summary.completeness_check = << >>
        /\ processing_summary.red_flags = << >>
        /\ processing_summary.recommendations = << >>

\* C9 witness: the first of two segments was dispatched and consolidated into
\* a person record, the consolidation of the second raised, and the call
\* returned with one validation error.
C9_Witness ==
    /\ pc = "done"
    /\ raised
    /\ segments_found = 2
    /\ Len(documents_processed) = 2
    /\ Len(person_records) = 1
    /\ validation_errors = <<ProcessingError("AttributeError")>>

\* C10: a segment whose field-extraction call failed has an error field in
\* its extracted data and a processing note about the failure (a note other
\* than the one for an unknown document type), it was handed to
\* consolidation like any other, and a run that raised nothing dispatched
\* and consolidated every segment.
C10_FailedExtractionNoted ==
    /\ \A i \in llm_failures :
        /\ "error" \in DOMAIN documents_processed[i].extracted_data
        /\ \E n \in 1..Len(documents_processed[i].processing_notes) :
            documents_processed[i].processing_notes[n] # GenericNote
        /\ history[i] = documents_processed[i]
    /\ (pc = "done" /\ ~raised) =>
        /\ Len(documents_processed) = segments_found
        /\ Len(history) = segments_found

\* the sum of the page counts of the segments
RECURSIVE SegmentPages(_)
SegmentPages(segs) ==
    IF segs = << >> THEN 0 ELSE Len(Head(segs).pages) + SegmentPages(Tail(segs))

\* the sum of the counts of a dict of counts
RECURSIVE SumOfCounts(_)
SumOfCounts(counts) ==
    IF DOMAIN counts = {} THEN 0
    ELSE LET t == CHOOSE u \in DOMAIN counts : TRUE
         IN counts[t] + SumOfCounts([u \in DOMAIN counts \ {t} |-> counts[u]])

\* C15: in a run that completes without a top-level failure, the summary's
\* total_pages is the sum of the page counts of all segments, hence the
\* number of input pages; document_types_found counts the segments of each
\* type, the counts summing to segments_found; and people_identified is the
\* number of distinct person keys.
C15_OverviewCounts ==
    (pc = "done" /\ ~raised) =>
        LET overview == processing_summary.file_overview
        IN /\ overview.total_pages = SegmentPages(segments)
           /\ overview.total_pages = Len(page_analyses)
           /\ DOMAIN overview.document_types_found
                 = {segments[i].doc_type : i \in DOMAIN segments}
           /\ \A t \in DOMAIN overview.document_types_found :
                 overview.document_types_found[t]
                     = Cardinality({i \in DOMAIN segments : segments[i].doc_type = t})
           /\ SumOfCounts(overview.document_types_found) = segments_found
           /\ overview.people_identified = Cardinality(Keys(person_records))

\* a completed run over two pages grouped into one segment, with a person
\* identified
C15_Witness ==
    /\ pc = "done"
    /\ ~raised
    /\ Len(page_analyses) = 2
    /\ segments_found = 1
    /\ processing_summary.file_overview.total_pages = 2
    /\ processing_summary.file_overview.people_identified = 1

\* documents_processed holds the results of the first segments, one per
\* segment and in the order of the segments
ResultsInSegmentOrder(results, segs) ==
    /\ Len(results) <= Len(segs)
    /\ \A i \in 1..Len(results) :
          /\ results[i].pages = segs[i].pages
          /\ results[i].document_type = segs[i].doc_type

\* the documents follow one another in page order
InPageOrder(documents) ==
    \A a, b \in 1..Len(documents) :
        a < b => \A p \in 1..Len(documents[a].pages), q \in 1..Len(documents[b].pages) :
                    documents[a].pages[p] < documents[b].pages[q]

\* person_records changed by one consolidation of the segment result: one
\* record, an existing or a new last one, got the document of the result
\* appended, and no other record changed
OneConsolidation(before, after, segment_result) ==
    /\ Len(after) \in {Len(before), Len(before) + 1}
    /\ \E k \in 1..Len(after) :
          /\ \A j \in 1..Len(before) : j # k => after[j] = before[j]
          /\ k > Len(before) => k = Len(after)
          /\ after[k].documents =
                (IF k <= Len(before) THEN before[k].documents ELSE << >>)
                \o <<DocumentEntry(segment_result)>>

\* C25: in a run without a top-level failure, segments_found is the number
\* of segments the grouper emitted, documents_processed holds one result per
\* segment in segment order (all of them once the run is done), every step
\* that changes person_records is the dispatch of the next segment followed
\* by the one consolidation of its result, and the documents of every person
\* are in page order.
C25_SegmentsInOrder ==
    [][/\ (grouped' /\ ~raised') =>
            /\ segments_found' = Len(segments')
            /\ ResultsInSegmentOrder(documents_processed', segments')
            /\ pc' = "done" => Len(documents_processed') = Len(segments')
            /\ \A k \in 1..Len(person_records') :
                  InPageOrder(person_records'[k].documents)
       /\ documents_processed' # documents_processed =>
            /\ Len(documents_processed') = Len(documents_processed) + 1
            /\ SubSeq(documents_processed', 1, Len(documents_processed))
                  = documents_processed
       /\ person_records' # person_records =>
            /\ Len(documents_processed') = Len(documents_processed) + 1
            /\ OneConsolidation(person_records, person_records',
                                documents_processed'[Len(documents_processed')])
      ]_vars

\* C25 witness: a file of two segments processed without a failure: two
\* results in segment order and one person whose two documents are the page
\* of the first segment and then the page of the second.
C25_Witness ==
    /\ pc = "done"
    /\ ~raised
    /\ segments_found = 2
    /\ Len(documents_processed) = 2
    /\ documents_processed[1].pages = <<0>>
    /\ documents_processed[2].pages = <<1>>
    /\ \E k \in 1..Len(person_records) :
          /\ Len(person_records[k].documents) = 2
          /\ person_records[k].documents[1].pages = <<0>>
          /\ person_records[k].documents[2].pages = <<1>>

\* C29: in every result process_multi_document_file returns, one returned
\* after a caught failure part-way through the run included, the summary
\* agrees with the rest of the result: people_identified is the number of
\* entries of person_records and total_pages is the number of pages of the
\* entries of documents_processed.
C29_SummaryAgreesWithResult ==
    pc = "done" =>
        /\ processing_summary.file_overview.people_identified = Len(person_records)
        /\ processing_summary.file_overview.total_pages
              = SegmentPages(documents_processed)

-----------------------------------------------------------------------------
(* Properties of a file processed end to end (checked under SpecEndToEnd) *)

\* the file is a notice of action for John Doe followed by an entry record
\* for Jane Smith
NoticeThenEntry ==
    /\ Len(page_analyses) = 2
    /\ page_analyses[1].text \in NoticePages
    /\ page_analyses[2].text \in EntryPages

\* every extraction answered the fields of the document its segment opens
\* with
FaithfulExtraction ==
    \A i \in DOMAIN documents_processed :
        documents_processed[i].extracted_data
            = IF documents_processed[i].pages[1] = 0 THEN NoticeFields ELSE EntryFields

\* C11: a two-page input whose page 1 is a notice of action with a receipt
\* number and beneficiary 'John Doe' and whose page 2 is an unrelated entry
\* record for 'Jane Smith' gives segments_found = 2, one result per segment,
\* two person records keyed 'John Doe' and 'Jane Smith', and a summary with
\* people_identified = 2.
C11_TwoDocumentsTwoPeople ==
    (pc = "done" /\ NoticeThenEntry /\ FaithfulExtraction) =>
        /\ segments_found = 2
        /\ Len(documents_processed) = 2
        /\ Len(person_records) = 2
        /\ Keys(person_records) = {JohnDoe, JaneSmith}
        /\ processing_summary.file_overview.people_identified = 2

-----------------------------------------------------------------------------
(* Properties of the page classifier (checked under SpecClassifier) *)

\* what detect_document_types_on_page returned for page_text
Returned == detected[1]

\* no indicator of the catalog is present in the page: every recorded
\* boolean is false but the one that records the absence of
\* 'notice of action' (the third of I129)
NoIndicatorPresent ==
    \A type \in CatalogTypes :
        \A k \in DOMAIN Returned.diagnostics.indicators_checked[type] :
            Returned.diagnostics.indicators_checked[type][k]
                => (type = "I129" /\ k = 3)

\* C12: for a page text on which no catalog indicator is present,
\* detect_document_types_on_page returns (it raises nothing) an empty
\* detection list and diagnostics whose page_length is the length of the
\* text, whose ocr_used is the flag passed, and whose indicators_checked
\* holds a list of indicator booleans for every catalog type.
C12_NoIndicatorNoDetection ==
    (detected # NotDetected /\ NoIndicatorPresent) =>
        /\ Returned.detected_types = << >>
        /\ Returned.diagnostics.page_length = Len(page_text)
        /\ Returned.diagnostics.ocr_used = ocr_used
        /\ DOMAIN Returned.diagnostics.indicators_checked = CatalogTypes
        /\ \A type \in CatalogTypes :
              /\ Returned.diagnostics.indicators_checked[type] # << >>
              /\ \A k \in DOMAIN Returned.diagnostics.indicators_checked[type] :
                    Returned.diagnostics.indicators_checked[type][k] \in BOOLEAN

\* a page of text without indicators, some of it white space at the end,
\* classified with the OCR flag set
C12_Witness ==
    /\ detected # NotDetected
    /\ NoIndicatorPresent
    /\ Len(page_text) > Len(strip(page_text))
    /\ Len(strip(page_text)) > 0
    /\ ocr_used

\* the order in which the catalog declares (tests) its types
DeclarationOrder ==
    <<"I797", "I797C", "I129", "PERM", "PWD", "LCA", "I94", "EAD", "GREEN_CARD",
      "US_PASSPORT", "FOREIGN_PASSPORT", "VISA_STAMP">>

Declared(type) == CHOOSE k \in DOMAIN DeclarationOrder : DeclarationOrder[k] = type

\* C13: the detection list is sorted by confidence in descending order,
\* each type appears at most once, and two types of equal confidence appear
\* in catalog declaration order.
C13_DetectionsRanked ==
    detected # NotDetected =>
        \A i, j \in DOMAIN Returned.detected_types :
            i < j =>
                /\ Returned.detected_types[i].confidence
                      >= Returned.detected_types[j].confidence
                /\ Returned.detected_types[i].type # Returned.detected_types[j].type
                /\ Returned.detected_types[i].type \in CatalogTypes
                /\ Returned.detected_types[j].type \in CatalogTypes
                /\ Returned.detected_types[i].confidence
                      = Returned.detected_types[j].confidence
                   => Declared(Returned.detected_types[i].type)
                         < Declared(Returned.detected_types[j].type)

\* a page with two detections of equal confidence, found on the page in
\* the opposite order of their declaration
C13_Witness ==
    /\ detected # NotDetected
    /\ Len(Returned.detected_types) = 2
    /\ Returned.detected_types[1].confidence = Returned.detected_types[2].confidence
    /\ page_text = Fragments[6] \o Fragments[4]

\* the types of the detections returned
DetectedTypes ==
    {Returned.detected_types[i].type : i \in DOMAIN Returned.detected_types}

\* the indicator booleans recorded for a type
Recorded(type) == Returned.diagnostics.indicators_checked[type]

\* the types whose indicator set is conjunctive
ConjunctiveTypes == {"I129", "VISA_STAMP"}

\* C21 as stated: a type whose indicator set is not conjunctive appears in
\* the detections iff at least one of the indicator booleans recorded for it
\* is true; a conjunctive type (I129, VISA_STAMP) iff all of them are true.
C21_DetectedIffRecorded ==
    detected # NotDetected =>
        \A type \in CatalogTypes :
            type \in DetectedTypes
                <=> IF type \in ConjunctiveTypes
                    THEN \A k \in DOMAIN Recorded(type) : Recorded(type)[k]
                    ELSE \E k \in DOMAIN Recorded(type) : Recorded(type)[k]

\* the recorded booleans of a type that decide its detection: the last
\* boolean recorded for LCA, EAD and GREEN_CARD only raises the confidence
Deciding(type) ==
    IF type \in {"LCA", "EAD", "GREEN_CARD"}
    THEN SubSeq(Recorded(type), 1, Len(Recorded(type)) - 1)
    ELSE Recorded(type)

\* C21 amended: I797, I797C, PERM, PWD, I94 and US_PASSPORT appear in the
\* detections iff at least one of their recorded indicators is true; LCA,
\* EAD and GREEN_CARD iff one of their recorded indicators other than the
\* last is true (the last one, 'department of labor' or the number pattern,
\* only raises the confidence); FOREIGN_PASSPORT iff its indicator is true
\* and the US_PASSPORT indicator is false; the conjunctive types I129 and
\* VISA_STAMP iff all of their recorded indicators are true.
C21_DetectedIffDeciding ==
    detected # NotDetected =>
        \A type \in CatalogTypes :
            type \in DetectedTypes
                <=> CASE type \in ConjunctiveTypes ->
                           \A k \in DOMAIN Recorded(type) : Recorded(type)[k]
                      [] type = "FOREIGN_PASSPORT" ->
                           Recorded(type)[1] /\ ~Recorded("US_PASSPORT")[1]
                      [] OTHER ->
                           \E k \in DOMAIN Deciding(type) : Deciding(type)[k]

\* a page on which the number pattern alone is recorded for EAD, which is
\* not detected, next to a detected type
C21_Witness ==
    /\ detected # NotDetected
    /\ Recorded("EAD") = <<FALSE, TRUE>>
    /\ "EAD" \notin DetectedTypes
    /\ Recorded("LCA")[6]
    /\ "LCA" \notin DetectedTypes
    /\ "I797" \in DetectedTypes

-----------------------------------------------------------------------------
(* Properties of is_continuation_page (checked under SpecContinuation) *)

\* the text, in lower case, holds one of the continuation phrases: 'page '
\* and a digit ('page N of M' holds it too), 'continued' (so does
\* '(continued)'), 'attachment' or 'exhibit'
MatchesContinuationPattern ==
    \/ \E k \in DOMAIN DigitChars :
          In(<<"p", "a", "g", "e", " ", DigitChars[k]>>, lower(page_text))
    \/ In(<<"c", "o", "n", "t", "i", "n", "u", "e", "d">>, lower(page_text))
    \/ In(<<"a", "t", "t", "a", "c", "h", "m", "e", "n", "t">>, lower(page_text))
    \/ In(<<"e", "x", "h", "i", "b", "i", "t">>, lower(page_text))

\* the text, in lower case, holds one of the header keywords
HoldsHeaderKeyword ==
    \/ In(<<"f", "o", "r", "m">>, lower(page_text))
    \/ In(<<"d", "e", "p", "a", "r", "t", "m", "e", "n", "t">>, lower(page_text))
    \/ In(<<"c", "e", "r", "t", "i", "f", "i", "c", "a", "t", "e">>, lower(page_text))
    \/ In(<<"n", "o", "t", "i", "c", "e">>, lower(page_text))

\* C22: is_continuation_page returns false iff the text matches no
\* continuation pattern, its trimmed length is at least 200 characters and
\* it holds at least one header keyword; a page that matches a continuation
\* pattern is a continuation whatever its length and header keywords, and
\* the result is the same whatever was detected on the page.
C22_ContinuationRule ==
    is_continuation # NotChecked =>
        /\ is_continuation[1] = FALSE
              <=> /\ ~MatchesContinuationPattern
                  /\ Len(strip(page_text)) >= 200
                  /\ HoldsHeaderKeyword
        /\ MatchesContinuationPattern => is_continuation[1] = TRUE

\* a long page with a header keyword and no detection that is a
\* continuation because it matches a continuation pattern
C22_Witness ==
    /\ is_continuation = <<TRUE>>
    /\ MatchesContinuationPattern
    /\ Len(strip(page_text)) >= 200
    /\ HoldsHeaderKeyword
    /\ Returned.detected_types = << >>

-----------------------------------------------------------------------------
(* Properties of check_case_completeness (checked under SpecCompleteness) *)

\* what check_case_completeness returned for person_data
Completeness == completeness[1].value

\* the set of document types attached to the person
AttachedTypes == {person_data.documents[i].type : i \in DOMAIN person_data.documents}

FlagNames ==
    {"has_petition", "has_labor_cert", "has_passport", "has_visa",
     "has_entry_record", "has_work_auth"}

\* the types that make each flag true
FlagTypes ==
    [flag \in FlagNames |->
        CASE flag = "has_petition" -> {"I129", "I797", "I797C"}
          [] flag = "has_labor_cert" -> {"PERM", "LCA"}
          [] flag = "has_passport" -> {"US_PASSPORT", "FOREIGN_PASSPORT"}
          [] flag = "has_visa" -> {"VISA_STAMP"}
          [] flag = "has_entry_record" -> {"I94"}
          [] flag = "has_work_auth" -> {"EAD", "GREEN_CARD"}]

TrueFlags == {flag \in FlagNames : Completeness[flag]}

\* C14: check_case_completeness derives the six flags from the set of
\* document types attached to the person, and completeness_score is the
\* number of true flags divided by 6: one of 0, 1/6, ..., 1, and 1 exactly
\* when all six flags are true.
C14_ScoreIsFlagsOverSix ==
    (completeness # NotReturned /\ ~completeness[1].raised) =>
        /\ \A flag \in FlagNames :
              Completeness[flag] <=> (AttachedTypes \cap FlagTypes[flag] # {})
        /\ Completeness.completeness_score = <<Cardinality(TrueFlags), 6>>
        /\ Completeness.completeness_score[1] \in 0..6
        /\ (Completeness.completeness_score[1] = Completeness.completeness_score[2])
              <=> (TrueFlags = FlagNames)

\* a person with one document for each flag, the passport a foreign one,
\* scored 6/6
C14_Witness ==
    /\ completeness # NotReturned
    /\ ~completeness[1].raised
    /\ Len(person_data.documents) = 6
    /\ "FOREIGN_PASSPORT" \in AttachedTypes
    /\ TrueFlags = FlagNames
    /\ Completeness.completeness_score = <<6, 6>>

\* the missing-document rules in their order: what is reported missing and
\* whether the flags returned call for it
MissingRules ==
    <<[text |-> "I-129 petition or I-797 approval notice",
       applies |-> Completeness.has_labor_cert /\ ~Completeness.has_petition],
      [text |-> "I-94 entry record",
       applies |-> Completeness.has_petition /\ ~Completeness.has_entry_record],
      [text |-> "Passport", applies |-> ~Completeness.has_passport],
      [text |-> "Work authorization (EAD or Green Card)",
       applies |-> ~Completeness.has_work_auth]>>

\* C24: the petition is reported missing iff the person has a labor
\* certification and no petition, the I-94 entry record iff the person has a
\* petition and no entry record, the passport iff has_passport is false and
\* the work authorization iff has_work_auth is false, the last two whatever
\* the other flags are; the entries appear once each, in that order.
C24_MissingDocumentRules ==
    (completeness # NotReturned /\ ~completeness[1].raised) =>
        LET missing == Completeness.missing_documents
        IN /\ \A r \in DOMAIN MissingRules :
                 MissingRules[r].applies
                    <=> \E n \in DOMAIN missing : missing[n] = MissingRules[r].text
           /\ \A n \in DOMAIN missing : \E r \in DOMAIN MissingRules :
                 missing[n] = MissingRules[r].text
           /\ \A a, b \in DOMAIN missing : \A r, q \in DOMAIN MissingRules :
                 (a < b /\ missing[a] = MissingRules[r].text
                        /\ missing[b] = MissingRules[q].text) => r < q

\* C24 witness: a person with a labor certification, a visa and an entry
\* record, and no petition, passport or work authorization: the petition,
\* the passport and the work authorization are reported missing, in that
\* order, and the entry record is not.
C24_Witness ==
    /\ completeness # NotReturned
    /\ ~completeness[1].raised
    /\ AttachedTypes = {"LCA", "VISA_STAMP", "I94"}
    /\ Completeness.missing_documents =
          <<"I-129 petition or I-797 approval notice", "Passport",
            "Work authorization (EAD or Green Card)">>

-----------------------------------------------------------------------------
(* Properties of get_document_date_range (checked under SpecDateRange) *)

\* every timeline entry of every person
AllEntries ==
    UNION {{person_records[k].timeline[n] : n \in DOMAIN person_records[k].timeline} :
           k \in DOMAIN person_records}

\* the date an entry gives: its parsed date or, lacking one, the date its
\* raw date string parses to; NoDate when neither gives one
DateGiven(entry) ==
    IF entry.parsed_date # NoDate THEN entry.parsed_date
    ELSE parse_date_flexible(entry.date)

\* the range is that of the dates: null/null for no date, else the ISO
\* form of the earliest and of the latest
IsRangeOf(range, dates) ==
    IF dates = {} THEN range.earliest = Null /\ range.latest = Null
    ELSE \E first \in dates, last \in dates :
            /\ \A d \in dates : first <= d /\ d <= last
            /\ range.earliest = isoformat(first)
            /\ range.latest = isoformat(last)

\* C16 as stated: the date range is the earliest and latest parsed date
\* over every person's timeline; entries lacking a parsed date are ignored,
\* and the range is null/null when no entry has a parsed date.
C16_RangeOfParsedDates ==
    date_range # NotReturned =>
        IsRangeOf(date_range[1],
                  {entry.parsed_date : entry \in {e \in AllEntries : e.parsed_date # NoDate}})

\* C16 amended: the date range is the earliest and latest date over every
\* person's timeline, the date of an entry being its parsed date or, for an
\* entry lacking one, the date its raw date string parses to; entries that
\* give no date either way are ignored, and the range is null/null when no
\* entry gives a date.
C16_RangeOfDatesGiven ==
    date_range # NotReturned =>
        IsRangeOf(date_range[1],
                  {DateGiven(entry) : entry \in {e \in AllEntries : DateGiven(e) # NoDate}})

\* an entry without a parsed date sets the earliest date, next to an entry
\* with a parsed date and an entry that gives no date
C16_Witness ==
    /\ date_range # NotReturned
    /\ \E e \in AllEntries : e.parsed_date # NoDate
    /\ \E e \in AllEntries : DateGiven(e) = NoDate
    /\ \E e \in AllEntries :
          /\ e.parsed_date = NoDate
          /\ DateGiven(e) # NoDate
          /\ date_range[1].earliest = isoformat(DateGiven(e))
    /\ date_range[1].earliest # date_range[1].latest

\* the text is an ISO date: yyyy-mm-dd
IsIsoDate(text) ==
    /\ Len(text) = 10
    /\ \A i \in {1, 2, 3, 4, 6, 7, 9, 10} : IsDigit(text[i])
    /\ text[5] = "-" /\ text[8] = "-"

\* all the entries in the timeline of one person
OnePerson ==
    <<[person_records[1] EXCEPT
          !.timeline = person_records[1].timeline \o person_records[2].timeline]>>

\* C17: get_document_date_range takes, for each timeline entry of each
\* person, the entry's parsed_date when present and otherwise the result of
\* parsing its raw date; entries whose raw date is missing or unparseable
\* are skipped; earliest and latest are the minimum and maximum of the dates
\* obtained, across all persons, in ISO form.  The mixed entries
\* '2024-01-01' (with parsed date), '03/15/2023' and '19DEC1994' (without)
\* give earliest 1994-12-19 and latest 2024-01-01.
C17_MixedDatesRange ==
    date_range # NotReturned =>
        /\ person_records = MixedDates =>
              date_range[1] = DateRange(<<"1", "9", "9", "4", "-", "1", "2", "-", "1", "9">>, <<"2", "0", "2", "4", "-", "0", "1", "-", "0", "1">>)
        /\ date_range[1] = get_document_date_range(OnePerson)
        /\ \A e \in AllEntries :
              (e.parsed_date # NoDate \/ parse_date_flexible(e.date) # NoDate)
                  => /\ IsIsoDate(date_range[1].earliest)
                     /\ IsIsoDate(date_range[1].latest)
                     /\ parse_date_flexible(date_range[1].earliest) <= DateGiven(e)
                     /\ DateGiven(e) <= parse_date_flexible(date_range[1].latest)
        /\ (\A e \in AllEntries :
               e.parsed_date = NoDate /\ parse_date_flexible(e.date) = NoDate)
              => date_range[1] = DateRange(Null, Null)

\* the range of the mixed timelines of the two people
C17_Witness ==
    /\ date_range # NotReturned
    /\ person_records = MixedDates
    /\ date_range[1].earliest = <<"1", "9", "9", "4", "-", "1", "2", "-", "1", "9">>

-----------------------------------------------------------------------------
(* Properties of the red flags (checked under SpecRedFlags) *)

\* the number of inconsistency strings of the first k person records
RECURSIVE InconsistenciesBefore(_)
InconsistenciesBefore(k) ==
    IF k = 0 THEN 0
    ELSE InconsistenciesBefore(k - 1) + Len(person_records[k].inconsistencies)

\* C18: the summary's red_flags list is the concatenation, person by person,
\* of each person's inconsistency strings, each prefixed with that person's
\* key; its length is the total number of inconsistency strings over all
\* person records, and it is empty iff no person has an inconsistency.
C18_RedFlagsConcatenated ==
    (pc = "done" /\ ~raised) =>
        LET flags == processing_summary.red_flags
        IN /\ Len(flags) = InconsistenciesBefore(Len(person_records))
           /\ \A k \in DOMAIN person_records :
                 \A n \in DOMAIN person_records[k].inconsistencies :
                    /\ flags[InconsistenciesBefore(k - 1) + n].person_key
                          = person_records[k].key
                    /\ flags[InconsistenciesBefore(k - 1) + n].inconsistency
                          = person_records[k].inconsistencies[n]
           /\ flags = << >>
                 <=> \A k \in DOMAIN person_records :
                        person_records[k].inconsistencies = << >>

\* two people with two inconsistencies each, and a third with none between
\* them
C18_Witness ==
    /\ pc = "done"
    /\ ~raised
    /\ Len(person_records) = 3
    /\ Len(person_records[1].inconsistencies) = 2
    /\ person_records[2].inconsistencies = << >>
    /\ Len(person_records[3].inconsistencies) = 2
    /\ Len(processing_summary.red_flags) = 4

-----------------------------------------------------------------------------
(* Properties of process_document_segment (checked under SpecDispatch) *)

\* the types the routing table names
RoutedTypes ==
    {"I797", "I797C", "I129", "PERM", "PWD", "LCA", "I94", "EAD", "GREEN_CARD",
     "US_PASSPORT", "FOREIGN_PASSPORT", "VISA_STAMP"}

\* the number of generic-extraction notes of a result
GenericNotes(segment_result) ==
    Cardinality({n \in DOMAIN segment_result.processing_notes :
                    segment_result.processing_notes[n] = GenericNote})

\* C19: a segment whose type is not in the routing table (UNKNOWN or any
\* unrouted value) is sent to the generic extraction and its result records
\* the note that generic extraction was used; a segment of a routed type is
\* sent to the extraction of its type and never gets that note.
C19_GenericNoteIffUnrouted ==
    \A i \in DOMAIN documents_processed :
        IF segments[i].doc_type \in RoutedTypes
        THEN /\ extraction_method(segments[i].doc_type) # "extract_generic_data"
             /\ GenericNotes(documents_processed[i]) = 0
        ELSE /\ extraction_method(segments[i].doc_type) = "extract_generic_data"
             /\ GenericNotes(documents_processed[i]) = 1

\* a segment of a continuation page, of no type, was extracted generically
\* and noted; so was, in another run, a segment of type UNKNOWN
C19_Witness ==
    /\ Len(documents_processed) = 1
    /\ segments[1].doc_type \in {UNKNOWN, NoType}
    /\ documents_processed[1].processing_notes = <<GenericNote>>
    /\ documents_processed[1].extracted_data # ErrorMarker

-----------------------------------------------------------------------------
(* Properties of parse_date_flexible (checked under SpecParseDate) *)

\* C20: parse_date_flexible succeeds on '2024-01-01' (ISO) and on the
\* compact form '19DEC1994', giving 2024-01-01 and 1994-12-19, the second
\* strictly earlier than the first, and returns no value for
\* 'invalid-date', for null, for the empty string and for 'null' and 'n/a'.
C20_ParsesIsoAndCompact ==
    date_parsed # NotReturned =>
        /\ date_input = <<"2", "0", "2", "4", "-", "0", "1", "-", "0", "1">> => date_parsed[1] = MakeDate(2024, 1, 1)
        /\ date_input = <<"1", "9", "D", "E", "C", "1", "9", "9", "4">>
              => /\ date_parsed[1] = MakeDate(1994, 12, 19)
                 /\ date_parsed[1] # NoDate
                 /\ date_parsed[1] < MakeDate(2024, 1, 1)
        /\ date_input \in {InvalidDate, Null, << >>, <<"n", "u", "l", "l">>, <<"n", "/", "a">>}
              => date_parsed[1] = NoDate

\* the compact form was parsed
C20_Witness ==
    /\ date_input = <<"1", "9", "D", "E", "C", "1", "9", "9", "4">>
    /\ date_parsed = <<MakeDate(1994, 12, 19)>>

-----------------------------------------------------------------------------
(* Properties of a file of notices (checked under SpecNoticeFile) *)

\* the places of a type in the ranked detections of a page
RankOf(page, type) ==
    {n \in 1..Len(page.detected_types) : page.detected_types[n].type = type}

\* C30: on every page detected as both I797 and I797C, I797 has the higher
\* confidence (0.9 against 0.85 without a receipt-number pattern, 0.95
\* against 0.9 with one) and is ranked before I797C; and a segment is typed
\* I797C only when its opening page has no I797 indicator true.
C30_NoticeOutranksReceipt ==
    /\ \A i \in 1..Len(page_analyses) :
          \A a \in RankOf(page_analyses[i], "I797"),
             b \in RankOf(page_analyses[i], "I797C") :
                /\ a < b
                /\ <<page_analyses[i].detected_types[a].confidence,
                     page_analyses[i].detected_types[b].confidence>>
                      = (IF receipt_number_match(lower(page_analyses[i].text))
                         THEN <<95, 90>> ELSE <<90, 85>>)
    /\ \A k \in 1..Len(segments) :
          segments[k].doc_type = "I797C" =>
              LET opening == page_analyses[segments[k].pages[1] + 1]
              IN ~any(indicators(opening.text, lower(opening.text))["I797"])

=============================================================================
